---------------------------- MODULE Spec2Model ----------------------------
(***************************************************************************)
(* codemirror-textmate: the rebind coordinator (safeUpdateCM / proceed),   *)
(* the rebind attempt (updateCmTmBindings) and the per-theme stylesheet    *)
(* reference counting of src/unnamed/part_002 (index.ts).                  *)
(*                                                                         *)
(* JavaScript runs each synchronous stretch of code to completion, so one  *)
(* action is one such stretch: a call of safeUpdateCM (with the proceed    *)
(* and the synchronous part of updateCmTmBindings it may start), the       *)
(* continuation of an attempt after `await highlighter.getTokenizer`, and  *)
(* the continuation of proceed after `await currentActivation`.            *)
(***************************************************************************)
EXTENDS Integers, Sequences, FiniteSets, TLC

\* ------------------------------------------------------------------ bounds
\* number of safeUpdateCM calls explored
MaxCalls == 3

\* editor instances (CodeMirror.Editor objects)
Editors == {"cm1", "cm2"}

\* values of the editor option 'mode'; "L1" is bound by activateLanguage, "LX" is not
LanguageIds == {"L1", "LX"}

\* values of the editor option 'theme'; "T1", "T2" were given to addTheme, "U" never was
ThemeNames == {"default", "T1", "T2", "U"}

\* an absent map entry / undefined
None == "none"

VARIABLES
    mode,               \* cm.getOption('mode') of each editor
    theme,              \* cm.getOption('theme') of each editor
    languageIdToScopeName, \* Highlighter.languageIdToScopeName
    themedHighlighters, \* key set of the themedHighlighters map
    cmModeToTheme,      \* languageId -> theme the mode was last baked with
    cmThemeRecord,      \* editor -> theme recorded for it
    tmThemeStyleNodes,  \* the map theme -> {inUseBy, inUseByCount}
    documentHead,       \* theme -> number of its style nodes attached to document.head
    cmModes,            \* CodeMirror's modes: languageId -> the Highlighter (by theme
                        \* name) whose tokenizer defineMode installed, or None
    queue,              \* safeUpdateCM's queue
    resolverCallbacks,  \* editor -> promise its registered resolver settles (0: no entry)
    currentActivation,  \* index into activations, 0 for null/undefined
    activations,        \* every PCancelable made by updateCmTmBindings(cm), in order
    proceeds,           \* proceed() invocations suspended at `await currentActivation`
    promises,           \* the promise returned by each safeUpdateCM call, in order:
                        \* its editor and state, the promise whose resolver the call
                        \* replaced while the editor waited in the queue (joins), and
                        \* whether a binding had been applied for the editor by then
    uncaught,           \* errors raised and caught by nobody
    scopeNameToInjections,  \* Highlighter.scopeNameToInjections: host -> set of scopes
    scopeNameToRawGrammars, \* Highlighter.scopeNameToRawGrammars
    scopeNameToLanguageId,  \* Highlighter.scopeNameToLanguageId
    registry,           \* Highlighter.registry: the engine (by number), 0 for null
    engines,            \* number of Registry objects constructed so far
    activated,          \* successful activateLanguage calls: languageId -> the load
                        \* priority, how far the call got and what it returned
    registered,         \* every addGrammar call that named its source, in order:
                        \* the scope and the kind of source
    producerCalls,      \* every invocation of a producer: the registration it
                        \* belongs to and the argument it was given
    resolutions,        \* getGrammarDefinition calls suspended at `await grammar`
    yielded,            \* what finished getGrammarDefinition calls returned: the
                        \* scope's last registration when the call started, and
                        \* the registration whose grammar it returned
    scopeSegments,      \* the segments of the scope string last given to walk
    walked,             \* what walk returned for it
    cache,              \* the LRU cache of tmToCm.ts: its entries, the most
                        \* recently used first
    lookups,            \* the tmScopeToCmToken calls made from outside the
                        \* Highlighter, in order: the scope and what was
                        \* returned
    highlighter,        \* the Highlighter that classifies a token: whether it
                        \* has a theme, and the best rule of its theme for each
                        \* scope
    scopes,             \* the scope stack of the token, the innermost scope
                        \* last
    cmToken,            \* the class returned for the token
    stream,             \* the StringStream of the line being tokenized: its
                        \* position and the length of its string
    state,              \* the mode state handed to the tokenizer: ruleStack
                        \* and tokensCache
    lineNo,             \* the number of the line being tokenized, 0 before the
                        \* first
    carried,            \* the rule stack the engine returned for the line
                        \* before
    tokenized,          \* the grammar.tokenizeLine calls made for the line:
                        \* the rule stack given and the result
    returned,          \* what the tokenizer returned at each invocation for
                        \* the line, and the stream position it left
    rawTheme,           \* the theme given to cssTextFromTmTheme: name, settings and gutterSettings
    tmTheme,            \* what the theme engine makes of it: the foreground index of the best rule for each scope, and the colour table
    cssText,            \* the text cssTextFromTmTheme returned, line by line
    shouldIgnoreNextEvent, \* editor -> the guard flag of its driver
    lastLanguageId,     \* editor -> the language id its driver re-applied last
    updates,            \* updateInstance calls suspended at `await
                        \* safeUpdateCM(cm)`: the editor, langId and the promise
    links               \* the calls of the exported linkInjections and
                        \* unlinkInjections, in order: the language ids the
                        \* Highlighter returned, the ones being reloaded, how
                        \* far the call got and the number of rebind attempts
                        \* made when it resolved

vars == <<mode, theme, languageIdToScopeName, themedHighlighters, cmModeToTheme,
          cmThemeRecord, tmThemeStyleNodes, documentHead, cmModes, queue,
          resolverCallbacks, currentActivation, activations, proceeds, promises,
          uncaught, scopeNameToInjections, scopeNameToRawGrammars,
          scopeNameToLanguageId, registry, engines, activated,
          registered, producerCalls, resolutions, yielded,
          scopeSegments, walked,
          cache, lookups,
          highlighter, scopes, cmToken,
          stream, state, lineNo, carried, tokenized, returned,
          rawTheme, tmTheme, cssText,
          shouldIgnoreNextEvent, lastLanguageId, updates, links>>

\* the Highlighter's static state apart from languageIdToScopeName
regVars == <<scopeNameToInjections, scopeNameToRawGrammars, scopeNameToLanguageId,
             registry, engines, activated>>

\* the state of index.ts and of the editors
coordVars == <<mode, theme, themedHighlighters, cmModeToTheme, cmThemeRecord,
               tmThemeStyleNodes, documentHead, cmModes, queue, resolverCallbacks,
               currentActivation, activations, proceeds, promises, uncaught,
               shouldIgnoreNextEvent, lastLanguageId, updates>>

\* the state of the init hook of each editor
driverVars == <<shouldIgnoreNextEvent, lastLanguageId, updates>>

\* the state of the grammar sources
srcVars == <<registered, producerCalls, resolutions, yielded>>

walkVars == <<scopeSegments, walked>>

cacheVars == <<cache, lookups>>

scanVars == <<highlighter, scopes, cmToken>>

tokVars == <<stream, state, lineNo, carried, tokenized, returned>>

cssVars == <<rawTheme, tmTheme, cssText>>

\* the state of the functions that turn scopes into classes and themes
\* into style sheets
renderVars == <<walkVars, cacheVars, scanVars, tokVars, cssVars>>

\* the calls of the exported linkInjections and unlinkInjections
linkVars == <<links>>

\* the state of the parts that neither the rebind attempts of index.ts nor
\* the registry's public methods touch
otherVars == <<srcVars, renderVars, linkVars>>

bindingVars == <<cmModeToTheme, cmThemeRecord, tmThemeStyleNodes, documentHead>>

\* --------------------------------------------------------------- Highlighter
\* Highlighter.hasLanguageRegistered
hasLanguageRegisteredMutant(languageId) == TRUE

hasLanguageRegistered(languageId) == languageId \in DOMAIN languageIdToScopeName

\* themedHighlighters.get(themeName) || themedHighlighters.get('default')
HighlighterFor(themeName) ==
    IF themeName \in themedHighlighters THEN themeName ELSE "default"

\* --------------------------------------------------- updateCmTmBindings(cm)
\* cmThemeRecord.get(cm) || 'default'
PrevThemeName(record, cm) == IF record[cm] = None THEN "default" ELSE record[cm]

\* themeName !== 'default' && themedHighlighters.has(themeName)
IsTextMateTheme(themeName) ==
    themeName # "default" /\ themeName \in themedHighlighters

\* Map.set and Map.delete on a map kept as a function on its key set
MapSet(map, k, v) == [x \in DOMAIN map \cup {k} |-> IF x = k THEN v ELSE map[x]]

MapDelete(map, k) == [x \in DOMAIN map \ {k} |-> map[x]]

\* the guard of "Cleanup previous theme resources"
ReleasesPrevious(nodes, prevThemeName, themeName) ==
    /\ prevThemeName # "default"
    /\ prevThemeName # themeName
    /\ themeName \in themedHighlighters
    /\ prevThemeName \in DOMAIN nodes

\* meta.inUseBy.has(cm) && meta.inUseByCount === 1
LastUserMutant(meta, cm) == cm \in meta.inUseBy

LastUser(meta, cm) == cm \in meta.inUseBy /\ meta.inUseByCount = 1

\* tmThemeStyleNodes after the cleanup block
NodesAfterCleanup(nodes, cm, prevThemeName, themeName) ==
    IF ReleasesPrevious(nodes, prevThemeName, themeName)
    THEN LET meta == nodes[prevThemeName] IN
         IF LastUser(meta, cm)
         THEN MapDelete(nodes, prevThemeName)
         ELSE MapSet(nodes, prevThemeName,
                     [inUseBy |-> meta.inUseBy \ {cm},
                      inUseByCount |-> meta.inUseByCount - 1])
    ELSE nodes

\* document.head after the cleanup block
HeadAfterCleanup(head, nodes, cm, prevThemeName, themeName) ==
    IF /\ ReleasesPrevious(nodes, prevThemeName, themeName)
       /\ LastUser(nodes[prevThemeName], cm)
    THEN [head EXCEPT ![prevThemeName] = @ - 1]
    ELSE head

\* tmThemeStyleNodes after the allocation block
NodesAfterAllocate(nodes, cm, themeName) ==
    IF IsTextMateTheme(themeName)
    THEN IF themeName \in DOMAIN nodes
         THEN LET meta == nodes[themeName] IN
              IF cm \notin meta.inUseBy
              THEN MapSet(nodes, themeName,
                          [inUseBy |-> meta.inUseBy \cup {cm},
                           inUseByCount |-> meta.inUseByCount + 1])
              ELSE nodes
         ELSE MapSet(nodes, themeName, [inUseBy |-> {cm}, inUseByCount |-> 1])
    ELSE nodes

\* document.head after the allocation block
HeadAfterAllocate(head, nodes, themeName) ==
    IF IsTextMateTheme(themeName) /\ themeName \notin DOMAIN nodes
    THEN [head EXCEPT ![themeName] = @ + 1]
    ELSE head

\* "Nothing much changed": the theme baked with the language is the new theme
NothingChanged(languageBoundTheme, themeName) ==
    languageBoundTheme # None /\ languageBoundTheme = themeName

\* what the attempt resolves to on the nothing-changed path
NothingChangedResultMutant(prevThemeName, themeName) == TRUE

NothingChangedResult(prevThemeName, themeName) == prevThemeName # themeName

\* The synchronous part of updateCmTmBindings(cm), up to the first await or to
\* an early resolve: the binding state afterwards and the PCancelable made.
\* b is [modeToTheme, themeRecord, nodes, head]; md and th are the editors' mode and
\* theme options at that moment.
UpdateSync(b, cm, md, th) ==
    LET languageId == md[cm]
        themeName == th[cm]
        languageBoundTheme == b.modeToTheme[languageId]
        prevThemeName == PrevThemeName(b.themeRecord, cm)
        nodes1 == NodesAfterCleanup(b.nodes, cm, prevThemeName, themeName)
        head1 == HeadAfterCleanup(b.head, b.nodes, cm, prevThemeName, themeName)
        early == NothingChanged(languageBoundTheme, themeName)
                 \/ ~hasLanguageRegistered(languageId)
    IN [b |-> [modeToTheme |-> IF hasLanguageRegistered(languageId)
                               THEN [b.modeToTheme EXCEPT ![languageId] = themeName]
                               ELSE b.modeToTheme,
               themeRecord |-> [b.themeRecord EXCEPT ![cm] = themeName],
               nodes |-> NodesAfterAllocate(nodes1, cm, themeName),
               head |-> HeadAfterAllocate(head1, nodes1, themeName)],
        act |-> [cm |-> cm,
                 languageId |-> languageId,
                 themeName |-> themeName,
                 languageBoundTheme |-> languageBoundTheme,
                 prevThemeName |-> prevThemeName,
                 highlighter |-> HighlighterFor(themeName),
                 canceled |-> FALSE,
                 state |-> IF early THEN "resolved" ELSE "awaiting",
                 value |-> IF NothingChanged(languageBoundTheme, themeName)
                           THEN NothingChangedResult(prevThemeName, themeName)
                           ELSE FALSE]]

Bindings == [modeToTheme |-> cmModeToTheme, themeRecord |-> cmThemeRecord,
             nodes |-> tmThemeStyleNodes, head |-> documentHead]

\* --------------------------------------------------------------- promises
\* calling a promise's resolve function: a settled promise stays as it is, and
\* 0 stands for no promise
Settle(ps, p, v) ==
    IF p # 0 /\ ps[p].state = "pending"
    THEN [ps EXCEPT ![p].state = IF v THEN "true" ELSE "false"]
    ELSE ps

\* PCancelable.cancel() with shouldReject = false: the onCancel handler runs when
\* the promise is still pending, and nothing is rejected
Cancel(acts, i) ==
    IF acts[i].state # "resolved" THEN [acts EXCEPT ![i].canceled = TRUE] ELSE acts

\* ------------------------------------------------------------- safeUpdateCM
\* "No work is being done === queue not proceeding => start the queue"
StartsQueueMutant(ca) == TRUE

StartsQueue(ca) == ca = 0

\* proceed(), from its call to its `await currentActivation` (or to its return on
\* an empty queue), run on the queue q, resolvers rc, activation ca, activations
\* acts, suspended proceeds prs and bindings b.
ProceedSync(q, rc, ca, acts, prs, b, md, th) ==
    IF q = <<>>
    THEN /\ currentActivation' = ca
         /\ activations' = acts
         /\ proceeds' = prs
         /\ cmModeToTheme' = b.modeToTheme
         /\ cmThemeRecord' = b.themeRecord
         /\ tmThemeStyleNodes' = b.nodes
         /\ documentHead' = b.head
    ELSE LET nextCM == Head(q)
             u == UpdateSync(b, nextCM, md, th)
         IN /\ activations' = Append(acts, u.act)
            /\ currentActivation' = Len(acts) + 1
            /\ proceeds' = prs \cup {[nextCM |-> nextCM,
                                       resolver |-> rc[nextCM],
                                       act |-> Len(acts) + 1]}
            /\ cmModeToTheme' = u.b.modeToTheme
            /\ cmThemeRecord' = u.b.themeRecord
            /\ tmThemeStyleNodes' = u.b.nodes
            /\ documentHead' = u.b.head

\* queue.shift()
Shift(q) == IF q = <<>> THEN q ELSE Tail(q)

\* queue.indexOf(cm) !== -1
Queued(q, cm) == \E i \in 1..Len(q) : q[i] = cm

\* an attempt for cm has installed a tokenizer (resolved true after defineMode)
Applied(acts, cm) ==
    \E i \in 1..Len(acts) :
        /\ acts[i].cm = cm
        /\ acts[i].state = "resolved"
        /\ acts[i].value
        /\ ~NothingChanged(acts[i].languageBoundTheme, acts[i].themeName)

\* safeUpdateCM(cm), called when the editor's options are m and t (the option
\* change that triggers the call is part of the step)
SafeUpdateCM(cm, m, t) ==
    /\ Len(promises) < MaxCalls
    /\ mode' = [mode EXCEPT ![cm] = m]
    /\ theme' = [theme EXCEPT ![cm] = t]
    /\ LET obsolete == queue # <<>> /\ Head(queue) = cm /\ currentActivation # 0
           prevResolver == resolverCallbacks[cm]
           acts1 == IF obsolete THEN Cancel(activations, currentActivation)
                    ELSE activations
           q1 == IF obsolete THEN Append(Shift(queue), cm) ELSE queue
           me == Len(promises) + 1
       IN IF obsolete /\ prevResolver = 0
          THEN \* prevResolver(false) with prevResolver undefined: TypeError,
               \* the async function's promise is rejected
               /\ activations' = acts1
               /\ queue' = q1
               /\ promises' = Append(promises,
                                [cm |-> cm, state |-> "rejected", joins |-> 0,
                                 applied |-> Applied(activations, cm)])
               /\ UNCHANGED <<resolverCallbacks, currentActivation, proceeds,
                              bindingVars>>
          ELSE LET ps1 == IF obsolete THEN Settle(promises, prevResolver, FALSE)
                          ELSE promises
                   q2 == IF Queued(q1, cm) THEN q1 ELSE Append(q1, cm)
                   joins == IF ~obsolete /\ Queued(queue, cm)
                            THEN resolverCallbacks[cm] ELSE 0
                   ps2 == Append(ps1, [cm |-> cm, state |-> "pending",
                                       joins |-> joins,
                                       applied |-> Applied(activations, cm)])
                   rc2 == [resolverCallbacks EXCEPT ![cm] = me]
               IN /\ queue' = q2
                  /\ resolverCallbacks' = rc2
                  /\ promises' = ps2
                  /\ IF StartsQueue(currentActivation)
                     THEN ProceedSync(q2, rc2, currentActivation, acts1, proceeds,
                                      Bindings, mode', theme')
                     ELSE /\ activations' = acts1
                          /\ UNCHANGED <<currentActivation, proceeds, bindingVars>>
    /\ UNCHANGED <<languageIdToScopeName, themedHighlighters, cmModes, uncaught>>
    /\ UNCHANGED regVars
    /\ UNCHANGED otherVars

\* updateCmTmBindings after `await highlighter.getTokenizer(languageId)`
TokenizerReady(i) ==
    /\ activations[i].state = "awaiting"
    /\ IF activations[i].canceled
       THEN /\ activations' = [activations EXCEPT ![i].state = "resolved",
                                                  ![i].value = FALSE]
            /\ UNCHANGED cmModes
       ELSE /\ cmModes' = [cmModes EXCEPT ![activations[i].languageId] =
                              activations[i].highlighter]
            /\ activations' = [activations EXCEPT ![i].state = "resolved",
                                                  ![i].value = TRUE]
    /\ UNCHANGED <<mode, theme, languageIdToScopeName, themedHighlighters,
                   bindingVars, queue, resolverCallbacks, currentActivation,
                   proceeds, promises, uncaught>>
    /\ UNCHANGED regVars
    /\ UNCHANGED otherVars

\* highlighter.getTokenizer rejects (the grammar cannot be loaded): the async
\* executor ends with an unhandled rejection and the PCancelable never settles
TokenizerFails(i) ==
    /\ activations[i].state = "awaiting"
    /\ activations' = [activations EXCEPT ![i].state = "abandoned"]
    /\ uncaught' = uncaught \cup {"getTokenizer"}
    /\ UNCHANGED <<mode, theme, languageIdToScopeName, themedHighlighters,
                   bindingVars, cmModes, queue, resolverCallbacks,
                   currentActivation, proceeds, promises>>
    /\ UNCHANGED regVars
    /\ UNCHANGED otherVars

\* proceed() after `await currentActivation`
ProceedResume(p) ==
    /\ activations[p.act].state = "resolved"
    /\ IF p.resolver = 0
       THEN \* resolver(...) with resolver undefined: TypeError in proceed
            /\ proceeds' = proceeds \ {p}
            /\ uncaught' = uncaught \cup {"proceed"}
            /\ UNCHANGED <<bindingVars, queue, resolverCallbacks,
                           currentActivation, activations, promises>>
       ELSE LET ps1 == Settle(promises, p.resolver, activations[p.act].value)
                rc1 == [resolverCallbacks EXCEPT ![p.nextCM] = 0]
                q1 == Shift(queue)
            IN /\ promises' = ps1
               /\ resolverCallbacks' = rc1
               /\ queue' = q1
               /\ uncaught' = uncaught
               /\ ProceedSync(q1, rc1, 0, activations, proceeds \ {p},
                              Bindings, mode, theme)
    /\ UNCHANGED <<mode, theme, languageIdToScopeName, themedHighlighters, cmModes>>
    /\ UNCHANGED regVars
    /\ UNCHANGED otherVars

\* The state after the module is loaded and the application has bound language
\* L1 (activateLanguage) and registered the themes T1 and T2 (addTheme); the
\* editors start with CodeMirror's default options.
\* no addGrammar call has named its source, nothing was resolved
\* no value yet
Unset == "unset"

\* the rule the theme engine gives for a scope no rule of the theme names
NoRule == [foreground |-> 0, fontStyle |-> 0]

\* the scopes a token's stack is made of
StackScopes == {<<"zz">>, <<"keyword">>, <<"keyword", "operator">>}

NoScanYet ==
    /\ highlighter = [themed |-> FALSE, match |-> [s \in StackScopes |-> NoRule]]
    /\ scopes = <<>>
    /\ cmToken = Unset

\* the initial rule stack of the engine (INITIAL); other rule stacks are
\* numbered from 1
INITIAL == 0

NoLineYet ==
    /\ stream = [pos |-> 0, len |-> 0]
    /\ state = [ruleStack |-> INITIAL, tokensCache |-> <<>>]
    /\ lineNo = 0
    /\ carried = INITIAL
    /\ tokenized = <<>>
    /\ returned = <<>>

\* the scope each flat category of cssTextFromTmTheme is coloured by, None
\* for null
cccmTokenColors ==
    << <<"atom", "constant.language">>,
       <<"attribute", "entity.other.attribute-name">>,
       <<"bracket", "punctuation.definition.tag">>,
       <<"builtin", "support.function">>,
       <<"comment", "comment">>,
       <<"def", "entity.name.function">>,
       <<"error", None>>,
       <<"header", None>>,
       <<"hr", None>>,
       <<"keyword", "keyword">>,
       <<"link", None>>,
       <<"meta", "meta">>,
       <<"number", "constant.numeric">>,
       <<"operator", "keyword.operator">>,
       <<"property", "variable.other.property">>,
       <<"qualifier", None>>,
       <<"quote", None>>,
       <<"string", "string">>,
       <<"string-2", "string.regexp">>,
       <<"tag", "entity.name.tag">>,
       <<"type", "storage.type">>,
       <<"variable", "variable.other.object">>,
       <<"variable-2", "support.class.builtin">>,
       <<"variable-3", None>> >>

\* the scopes cssTextFromTmTheme asks the theme engine about
MatchedScopes ==
    {cccmTokenColors[i][2] : i \in 1..Len(cccmTokenColors)} \ {None}

\* settings of which none is given
NoSettings == [background |-> None, foreground |-> None, caret |-> None,
               lineHighlight |-> None, selection |-> None]

NoGutter == [given |-> FALSE, background |-> None, divider |-> None,
             foreground |-> None, lineActiveBackground |-> None,
             lineActiveForeground |-> None]

NoSheetYet ==
    /\ rawTheme = [name |-> "default", settings |-> <<>>, gutterSettings |-> NoGutter]
    /\ tmTheme = [match |-> [s \in MatchedScopes |-> 0], colorMap |-> <<>>,
                  zero |-> None]
    /\ cssText = Unset

\* the init hook has set its variables and has not called updateInstance yet
NoUpdateYet ==
    /\ shouldIgnoreNextEvent = [cm \in Editors |-> FALSE]
    /\ lastLanguageId = [cm \in Editors |-> None]
    /\ updates = {}

NoCacheYet ==
    /\ cache = <<>>
    /\ lookups = <<>>

\* neither linkInjections nor unlinkInjections of index.ts was called
NoLinkYet == links = <<>>

NoWalkYet ==
    /\ scopeSegments = <<>>
    /\ walked = Unset

NoSourcesYet ==
    /\ registered = <<>>
    /\ producerCalls = <<>>
    /\ resolutions = <<>>
    /\ yielded = {}

Init ==
    /\ mode = [cm \in Editors |-> "LX"]
    /\ theme = [cm \in Editors |-> "default"]
    /\ languageIdToScopeName = [l \in {"L1"} |-> "S1"]
    /\ scopeNameToLanguageId = [x \in {"S1"} |-> "L1"]
    /\ scopeNameToRawGrammars = [x \in {"S1"} |-> "grammar"]
    /\ scopeNameToInjections = [x \in {} |-> {}]
    /\ registry = 0
    /\ engines = 0
    /\ activated = [l \in {"L1"} |-> [load |-> "defer", stage |-> "done",
                                       result |-> "false"]]
    /\ themedHighlighters = {"default", "T1", "T2"}
    /\ cmModeToTheme = [l \in LanguageIds |-> None]
    /\ cmThemeRecord = [cm \in Editors |-> None]
    /\ tmThemeStyleNodes = [t \in {} |-> None]
    /\ documentHead = [t \in ThemeNames |-> 0]
    /\ cmModes = [l \in LanguageIds |-> None]
    /\ queue = <<>>
    /\ resolverCallbacks = [cm \in Editors |-> 0]
    /\ currentActivation = 0
    /\ activations = <<>>
    /\ proceeds = {}
    /\ promises = <<>>
    /\ uncaught = {}
    /\ NoUpdateYet
    /\ NoLinkYet
    /\ NoSourcesYet
    /\ NoWalkYet
    /\ NoCacheYet
    /\ NoSheetYet
    /\ NoLineYet
    /\ NoScanYet

\* the coordinator, called by whoever watches the editors
Next ==
    \/ /\ \E cm \in Editors, m \in LanguageIds, t \in ThemeNames : SafeUpdateCM(cm, m, t)
       /\ UNCHANGED driverVars
    \/ /\ \E i \in 1..Len(activations) : TokenizerReady(i)
       /\ UNCHANGED driverVars
    \/ /\ \E i \in 1..Len(activations) : TokenizerFails(i)
       /\ UNCHANGED driverVars
    \/ /\ \E p \in proceeds : ProceedResume(p)
       /\ UNCHANGED driverVars

Spec == Init /\ [][Next]_vars

\* ------------------------------------------------------------------ claims
\* nothing is left for the coordinator to do: no attempt waits for its tokenizer
\* and no suspended proceed has a settled activation to resume on
Quiescent ==
    /\ \A i \in 1..Len(activations) : activations[i].state # "awaiting"
    /\ \A p \in proceeds : activations[p.act].state # "resolved"

PromisesOf(c) == {k \in 1..Len(promises) : promises[k].cm = c}

\* attempts of editor c that installed a tokenizer
AppliedBy(c) ==
    {i \in 1..Len(activations) :
        /\ activations[i].cm = c
        /\ activations[i].state = "resolved"
        /\ activations[i].value
        /\ ~NothingChanged(activations[i].languageBoundTheme, activations[i].themeName)}

\* C1: two calls for one editor, the second made while the first attempt waited
\* for its tokenizer, and no further call: once the coordinator has nothing left
\* to do, the first promise is false, the second is true, exactly one attempt of
\* the editor has installed a tokenizer, and the tokenizer installed for the
\* editor's mode comes from the Highlighter of its theme.
C1_SecondRequestWins ==
    \A c \in Editors :
        ( /\ Len(promises) = 2
          /\ PromisesOf(c) = {1, 2}
          /\ activations[1].canceled
          /\ hasLanguageRegistered(mode[c])
          /\ "getTokenizer" \notin uncaught
          /\ Quiescent )
        => /\ promises[1].state = "false"
           /\ promises[2].state = "true"
           /\ Cardinality(AppliedBy(c)) = 1
           /\ cmModes[mode[c]] = HighlighterFor(theme[c])

\* C2: once an attempt that was canceled while it waited for the tokenizer has
\* resolved (and before anything else runs), either the records are those from
\* before the attempt, or the new binding is installed with its records. (The
\* claim asks the same of the stylesheet counts; the records alone decide it.)
C2_CancelLeavesNoPartialState ==
    \A p \in proceeds :
        LET a == activations[p.act] IN
        (a.state = "resolved" /\ a.canceled)
        => \/ /\ cmModeToTheme[a.languageId] = a.languageBoundTheme
              /\ PrevThemeName(cmThemeRecord, a.cm) = a.prevThemeName
           \/ /\ cmModes[a.languageId] = a.highlighter
              /\ cmModeToTheme[a.languageId] = a.themeName
              /\ cmThemeRecord[a.cm] = a.themeName

\* C3: three or more calls for one editor, all made before a binding was applied
\* for it: once the coordinator has nothing left to do, every promise but the
\* last is false, the last is true and the tokenizer installed for the editor's
\* mode comes from the Highlighter of the theme of the last call.
C3_LastRequestWins ==
    \A c \in Editors :
        ( /\ Len(promises) >= 3
          /\ PromisesOf(c) = 1..Len(promises)
          /\ \A k \in 1..Len(promises) : ~promises[k].applied
          /\ hasLanguageRegistered(mode[c])
          /\ "getTokenizer" \notin uncaught
          /\ Quiescent )
        => /\ \A k \in 1..(Len(promises) - 1) : promises[k].state = "false"
           /\ promises[Len(promises)].state = "true"
           /\ cmModes[mode[c]] = HighlighterFor(theme[c])

\* C4: the queue never holds an editor twice, and when a call found its editor
\* waiting in the queue, its promise and the promise of the earlier caller are
\* settled alike: once the later one is settled, the earlier one has its value.
C4_MergedCallersShareResult ==
    /\ \A i, j \in 1..Len(queue) : queue[i] = queue[j] => i = j
    /\ \A k \in 1..Len(promises) :
          (promises[k].joins # 0 /\ promises[k].state \in {"true", "false"})
          => promises[promises[k].joins].state = promises[k].state

\* C5: when proceed resumes on a resolved attempt and goes on, the editor it
\* removes from the queue (the head) is the editor of that attempt.
C5_ResolvedInstanceLeavesQueue ==
    [][\A p \in proceeds :
          (p \notin proceeds' /\ uncaught' = uncaught)
          => /\ queue # <<>>
             /\ Head(queue) = p.nextCM
             /\ queue' = Tail(queue)]_vars

\* C6: of all attempts started by the coordinator at most one is unfinished, and
\* it is the last one started: every attempt before the last has resolved, so
\* an attempt starts only after the previous one (canceled or not) resolved.
C6_OneAttemptInFlight ==
    /\ \A i \in 1..(Len(activations) - 1) : activations[i].state = "resolved"
    /\ Cardinality({i \in 1..Len(activations) : activations[i].state # "resolved"}) <= 1
    /\ Cardinality(proceeds) <= 1

\* an attempt was canceled and resolved, and the next attempt is now under way
C6_Witness ==
    /\ Len(activations) >= 2
    /\ activations[Len(activations)].state = "awaiting"
    /\ \E i \in 1..(Len(activations) - 1) : activations[i].canceled

\* C7: the coordinator raises no error and rejects no promise.
C7_NoCoordinatorError ==
    /\ "proceed" \notin uncaught
    /\ \A k \in 1..Len(promises) : promises[k].state # "rejected"

\* C8 as stated: an attempt that finds its language baked with the editor's
\* current theme never waits for a tokenizer and resolves false.
C8_NoChangeResolvesFalse ==
    \A i \in 1..Len(activations) :
        LET a == activations[i] IN
        (a.languageBoundTheme # None /\ a.languageBoundTheme = a.themeName)
        => a.state = "resolved" /\ ~a.value

\* C8 amended: such an attempt never waits for a tokenizer (so it never
\* redefines the mode) and resolves true exactly when the theme recorded for
\* the editor before the attempt (default if none) differs from its theme now.
C8_NoChangeSkipsTokenizer ==
    \A i \in 1..Len(activations) :
        LET a == activations[i] IN
        (a.languageBoundTheme # None /\ a.languageBoundTheme = a.themeName)
        => /\ a.state = "resolved"
           /\ ~a.canceled
           /\ a.value = (a.prevThemeName # a.themeName)

\* an attempt took the nothing-changed path for an editor new to the theme
C8_Witness ==
    \E i \in 1..Len(activations) :
        LET a == activations[i] IN
        /\ a.languageBoundTheme # None
        /\ a.languageBoundTheme = a.themeName
        /\ a.prevThemeName # a.themeName
        /\ cmModes[a.languageId] # None

\* editors whose recorded theme is t
UsersOf(t) == {cm \in Editors : cmThemeRecord[cm] = t}

C10_NodeOnlyWhileInUse ==
    \A t \in ThemeNames :
        /\ t \in DOMAIN tmThemeStyleNodes
           => /\ UsersOf(t) # {}
              /\ tmThemeStyleNodes[t].inUseByCount = Cardinality(UsersOf(t))
        /\ documentHead[t] = IF t \in DOMAIN tmThemeStyleNodes THEN 1 ELSE 0

\* the attempt started by the step, if the step starts one
StartsAttempt == Len(activations') > Len(activations)

Started == activations'[Len(activations')]

\* C11 as stated: an attempt whose mode names no bound language, or whose theme
\* was never registered, leaves the style nodes (the map and the document) as
\* they were when it starts, and leaves the installed tokenizers as they were
\* when it resolves.
C11_MissingLeavesAllUnchanged ==
    [][/\ StartsAttempt
          => ((Started.languageId \notin DOMAIN languageIdToScopeName
               \/ Started.themeName \notin themedHighlighters)
              => /\ documentHead' = documentHead
                 /\ tmThemeStyleNodes' = tmThemeStyleNodes)
       /\ \A i \in 1..Len(activations) :
            ( /\ activations[i].state = "awaiting"
              /\ activations'[i].state = "resolved"
              /\ activations[i].themeName \notin themedHighlighters )
            => cmModes' = cmModes]_vars

\* C11 amended: an attempt whose mode names no bound language resolves false at
\* once, without asking for a tokenizer, and leaves the installed tokenizers as
\* they were; an attempt whose theme was never registered leaves the style nodes
\* (the map and the document) as they were.
C11_MissingFailsClosed ==
    [][StartsAttempt
       => /\ Started.languageId \notin DOMAIN languageIdToScopeName
             => /\ Started.state = "resolved"
                /\ ~Started.value
                /\ cmModes' = cmModes
                /\ uncaught' = uncaught
          /\ Started.themeName \notin themedHighlighters
             => /\ documentHead' = documentHead
                /\ tmThemeStyleNodes' = tmThemeStyleNodes]_vars

\* attempts were made with an unbound language and with an unregistered theme
\* while a tokenizer was installed and a style node attached
C11_Witness ==
    /\ \E i \in 1..Len(activations) :
          /\ activations[i].languageId \notin DOMAIN languageIdToScopeName
          /\ activations[i].state = "resolved"
    /\ \E i \in 1..Len(activations) :
          /\ activations[i].themeName \notin themedHighlighters
          /\ DOMAIN tmThemeStyleNodes # {}


\* ---------------------------------------------------------------------
\* The Highlighter's static registry (Highlighter.ts)
\* ---------------------------------------------------------------------

MaxEngines == 2

ScopeNames == {"S1", "S2"}

Loads == {"now", "asap", "defer"}

\* The second argument of linkInjections and unlinkInjections: an array of
\* scope names (given by the set of its elements, all the code looks at),
\* a value that is no array of strings, or no argument at all.
HostArgs ==
    [kind : {"list"}, hosts : SUBSET ScopeNames]
        \cup {[kind |-> "invalid", hosts |-> {}], [kind |-> "absent", hosts |-> {}]}

IsArrayOfStrings(h) == h.kind = "list"

PurgedMutant == registry

\* Registry purge of linkInjections and unlinkInjections
Purged == 0

\* how a call of linkInjections ends
LinkOutcome(h) == IF ~IsArrayOfStrings(h) THEN "threw" ELSE "returned"

InjectionsAfterLinkMutant(inj, scopeName, hosts) ==
    [h \in DOMAIN inj \cup hosts |-> IF h \in hosts THEN {scopeName} ELSE inj[h]]

InjectionsAfterLink(inj, scopeName, hosts) ==
    [h \in DOMAIN inj \cup hosts |->
        IF h \in hosts
        THEN (IF h \in DOMAIN inj THEN inj[h] ELSE {}) \cup {scopeName}
        ELSE inj[h]]

\* affectedLanguages: the language recorded for each affected host scope
AffectedLanguages(hosts) ==
    {scopeNameToLanguageId[h] : h \in hosts \cap DOMAIN scopeNameToLanguageId}

\* the array linkInjections returns
LinkReturn(h) == AffectedLanguages(h.hosts)

LinkInjections(scopeName, h) ==
    /\ UNCHANGED <<languageIdToScopeName, scopeNameToRawGrammars,
                   scopeNameToLanguageId, engines, activated>>
    /\ IF LinkOutcome(h) = "threw"
       THEN UNCHANGED <<scopeNameToInjections, registry>>
       ELSE /\ registry' = Purged
            /\ scopeNameToInjections' =
                   InjectionsAfterLink(scopeNameToInjections, scopeName, h.hosts)
    /\ UNCHANGED coordVars
    /\ UNCHANGED otherVars

\* getInjections: the injection members the engine is told for a scope
Members(inj, scopeName) == IF scopeName \in DOMAIN inj THEN inj[scopeName] ELSE {}

\* the guard unlinkInjections opens with
UnlinkReturnsEarly(inj, scopeName) == scopeName \notin DOMAIN inj

\* how a call of unlinkInjections ends: with a bare return ("nothing"), an
\* error or the array of affected languages
UnlinkOutcome(inj, scopeName, h) ==
    IF UnlinkReturnsEarly(inj, scopeName) THEN "nothing"
    ELSE IF h.kind = "absent" THEN "returned"
    ELSE IF ~IsArrayOfStrings(h) THEN "threw"
    ELSE "returned"

\* the hosts unlinkInjections deletes scopeName from
UnlinkedHosts(inj, scopeName, h) ==
    {x \in DOMAIN inj :
        /\ scopeName \in inj[x]
        /\ (h.kind = "absent" \/ x \in h.hosts)}

InjectionsAfterUnlink(inj, scopeName, h) ==
    [x \in DOMAIN inj |->
        IF x \in UnlinkedHosts(inj, scopeName, h) THEN inj[x] \ {scopeName} ELSE inj[x]]

\* the injection map a call of unlinkInjections leaves
UnlinkResult(inj, scopeName, h) ==
    IF UnlinkOutcome(inj, scopeName, h) = "returned"
    THEN InjectionsAfterUnlink(inj, scopeName, h)
    ELSE inj

\* the array unlinkInjections returns when it returns one
UnlinkReturn(inj, scopeName, h) == AffectedLanguages(UnlinkedHosts(inj, scopeName, h))

UnlinkInjections(scopeName, h) ==
    /\ UNCHANGED <<languageIdToScopeName, scopeNameToRawGrammars,
                   scopeNameToLanguageId, engines, activated>>
    /\ registry' = IF UnlinkOutcome(scopeNameToInjections, scopeName, h) = "returned"
                   THEN Purged
                   ELSE registry
    /\ scopeNameToInjections' = UnlinkResult(scopeNameToInjections, scopeName, h)
    /\ UNCHANGED coordVars
    /\ UNCHANGED otherVars

AddGrammar(scopeName) ==
    /\ scopeNameToRawGrammars' = MapSet(scopeNameToRawGrammars, scopeName, "grammar")
    /\ UNCHANGED <<languageIdToScopeName, scopeNameToInjections,
                   scopeNameToLanguageId, registry, engines, activated>>
    /\ UNCHANGED coordVars
    /\ UNCHANGED otherVars

\* loadLanguage up to its call of registry.loadGrammar: the engine that
\* answers, a new one when there is none
EngineAfterLoad == IF registry = 0 THEN engines + 1 ELSE registry

EnginesAfterLoad == IF registry = 0 THEN engines + 1 ELSE engines

CanLoad == registry = 0 => engines < MaxEngines

LoadReturnsNullMutant(languageId) == FALSE

\* loadLanguage returns null for these language ids
LoadReturnsNull(languageId) ==
    \/ languageId \notin DOMAIN languageIdToScopeName
    \/ languageIdToScopeName[languageId] \notin DOMAIN scopeNameToRawGrammars

\* what loadLanguage returns: null, or the promise of registry.loadGrammar
LoadOutcome(languageId) == IF LoadReturnsNull(languageId) THEN "null" ELSE "promise"

LoadLanguage(languageId) ==
    /\ IF LoadReturnsNull(languageId)
       THEN UNCHANGED <<registry, engines>>
       ELSE /\ CanLoad
            /\ registry' = EngineAfterLoad
            /\ engines' = EnginesAfterLoad
    /\ UNCHANGED <<languageIdToScopeName, scopeNameToInjections,
                   scopeNameToRawGrammars, scopeNameToLanguageId, activated>>
    /\ UNCHANGED coordVars
    /\ UNCHANGED otherVars

ActivateFailsMutant(scopeName, languageId) ==
    scopeName \notin DOMAIN scopeNameToRawGrammars

\* the two checks activateLanguage opens with
ActivateFails(scopeName, languageId) ==
    \/ scopeName \notin DOMAIN scopeNameToRawGrammars
    \/ languageId \in DOMAIN languageIdToScopeName

\* how a call of activateLanguage ends before it binds anything
ActivateOutcome(scopeName, languageId) ==
    IF ActivateFails(scopeName, languageId) THEN "rejected" ELSE "bound"

ActivateReturnMutant(load) == load = "now"

\* what activateLanguage returns once its loading, if any, succeeded
ActivateReturn(load) ==
    IF load = "now" THEN TRUE
    ELSE IF load = "asap" THEN TRUE
    ELSE FALSE

Result(b) == IF b THEN "true" ELSE "false"

\* activateLanguage up to its first await (or to its return)
ActivateLanguage(scopeName, languageId, load) ==
    /\ UNCHANGED <<scopeNameToInjections, scopeNameToRawGrammars>>
    /\ IF ActivateOutcome(scopeName, languageId) = "rejected"
       THEN UNCHANGED <<languageIdToScopeName, scopeNameToLanguageId,
                        registry, engines, activated>>
       ELSE /\ languageIdToScopeName' = MapSet(languageIdToScopeName, languageId, scopeName)
            /\ scopeNameToLanguageId' = MapSet(scopeNameToLanguageId, scopeName, languageId)
            /\ IF load = "now"
               THEN /\ CanLoad
                    /\ registry' = EngineAfterLoad
                    /\ engines' = EnginesAfterLoad
                    /\ activated' = MapSet(activated, languageId,
                          [load |-> load, stage |-> "loading", result |-> "pending"])
               ELSE IF load = "asap"
               THEN /\ activated' = MapSet(activated, languageId,
                          [load |-> load, stage |-> "idle", result |-> "pending"])
                    /\ UNCHANGED <<registry, engines>>
               ELSE /\ activated' = MapSet(activated, languageId,
                          [load |-> load, stage |-> "done",
                           result |-> Result(ActivateReturn(load))])
                    /\ UNCHANGED <<registry, engines>>
    /\ UNCHANGED coordVars
    /\ UNCHANGED otherVars

\* an asap activation resumes after requestIdle and calls loadLanguage
ActivateIdle(languageId) ==
    /\ languageId \in DOMAIN activated
    /\ activated[languageId].stage = "idle"
    /\ CanLoad
    /\ registry' = EngineAfterLoad
    /\ engines' = EnginesAfterLoad
    /\ activated' = [activated EXCEPT ![languageId].stage = "loading"]
    /\ UNCHANGED <<languageIdToScopeName, scopeNameToInjections,
                   scopeNameToRawGrammars, scopeNameToLanguageId>>
    /\ UNCHANGED coordVars
    /\ UNCHANGED otherVars

\* the grammar is loaded: the activation returns
ActivateLoaded(languageId) ==
    /\ languageId \in DOMAIN activated
    /\ activated[languageId].stage = "loading"
    /\ activated' = [activated EXCEPT
            ![languageId].stage = "done",
            ![languageId].result = Result(ActivateReturn(activated[languageId].load))]
    /\ UNCHANGED <<languageIdToScopeName, scopeNameToInjections,
                   scopeNameToRawGrammars, scopeNameToLanguageId, registry, engines>>
    /\ UNCHANGED coordVars
    /\ UNCHANGED otherVars

EmptyMap == [x \in {} |-> None]

\* the state once the modules are loaded, before any grammar or language is
\* registered, apart from the state of the scope classifier and the tokenizers
StaticInit ==
    /\ mode = [cm \in Editors |-> "LX"]
    /\ theme = [cm \in Editors |-> "default"]
    /\ themedHighlighters = {"default", "T1", "T2"}
    /\ cmModeToTheme = [l \in LanguageIds |-> None]
    /\ cmThemeRecord = [cm \in Editors |-> None]
    /\ tmThemeStyleNodes = EmptyMap
    /\ documentHead = [t \in ThemeNames |-> 0]
    /\ cmModes = [l \in LanguageIds |-> None]
    /\ queue = <<>>
    /\ resolverCallbacks = [cm \in Editors |-> 0]
    /\ currentActivation = 0
    /\ activations = <<>>
    /\ proceeds = {}
    /\ promises = <<>>
    /\ uncaught = {}
    /\ NoUpdateYet
    /\ NoLinkYet
    /\ languageIdToScopeName = EmptyMap
    /\ scopeNameToLanguageId = EmptyMap
    /\ scopeNameToRawGrammars = EmptyMap
    /\ scopeNameToInjections = EmptyMap
    /\ registry = 0
    /\ engines = 0
    /\ activated = EmptyMap
    /\ NoSourcesYet

RegInit ==
    /\ StaticInit
    /\ NoWalkYet
    /\ NoCacheYet
    /\ NoSheetYet
    /\ NoLineYet
    /\ NoScanYet

RegNext ==
    \/ \E s \in ScopeNames : AddGrammar(s)
    \/ \E s \in ScopeNames, h \in HostArgs : LinkInjections(s, h)
    \/ \E s \in ScopeNames, h \in HostArgs : UnlinkInjections(s, h)
    \/ \E s \in ScopeNames, l \in LanguageIds, p \in Loads : ActivateLanguage(s, l, p)
    \/ \E l \in LanguageIds : LoadLanguage(l)
    \/ \E l \in LanguageIds : ActivateIdle(l)
    \/ \E l \in LanguageIds : ActivateLoaded(l)

RegSpec == RegInit /\ [][RegNext]_vars

\* ---------------------------------------------------------------------
\* Claims about the Highlighter's registry
\* ---------------------------------------------------------------------

ValidHostArgs == {h \in HostArgs : IsArrayOfStrings(h)}

Absent == [kind |-> "absent", hosts |-> {}]

Invalid == [kind |-> "invalid", hosts |-> {}]

\* s is in the injection set of no host of H
InNoSetOf(s, hosts) == \A x \in hosts : s \notin Members(scopeNameToInjections, x)

\* C12: for a scope s and a host list H none of whose injection sets contains
\* s, linkInjections(s, H) followed by unlinkInjections(s, H), or by
\* unlinkInjections(s), leaves every scope's injection members as they
\* were before the link.
C12_LinkUnlinkRestores ==
    [][\A s \in ScopeNames, h \in ValidHostArgs :
          (InNoSetOf(s, h.hosts) /\ LinkInjections(s, h))
          => \A x \in ScopeNames :
                /\ Members(UnlinkResult(scopeNameToInjections', s, h), x)
                      = Members(scopeNameToInjections, x)
                /\ Members(UnlinkResult(scopeNameToInjections', s, Absent), x)
                      = Members(scopeNameToInjections, x)]_vars

\* C13: in every state, unlinkInjections(s, H) removes s from the injection
\* set of every host in H and from no host outside H, and
\* unlinkInjections(s) removes s from the injection set of every host,
\* whether or not s is a key of the injection map.
C13_UnlinkRemoves ==
    \A s \in ScopeNames, h \in ValidHostArgs \cup {Absent} :
        \A x \in ScopeNames :
            Members(UnlinkResult(scopeNameToInjections, s, h), x) =
                IF h = Absent \/ x \in h.hosts
                THEN Members(scopeNameToInjections, x) \ {s}
                ELSE Members(scopeNameToInjections, x)

\* C14: every linkInjections or unlinkInjections call that changes an
\* injection set discards the engine; a loadLanguage that finds no engine
\* constructs a new one, and the engine that answers a load is never one
\* that was discarded before.
C14_ChangeDiscardsEngine ==
    [][/\ scopeNameToInjections' # scopeNameToInjections => registry' = 0
       /\ registry' # registry
             => \/ registry' = 0
                \/ /\ registry = 0
                   /\ registry' = engines + 1
                   /\ engines' = engines + 1
       /\ \A l \in LanguageIds :
             (LoadLanguage(l) /\ ~LoadReturnsNull(l)) => registry' # 0]_vars

C14_Witness ==
    /\ registry = 2
    /\ \E x \in DOMAIN scopeNameToInjections : scopeNameToInjections[x] # {}

\* the language ids bound to one of the given scopes
BoundTo(hosts) ==
    {l \in DOMAIN languageIdToScopeName : languageIdToScopeName[l] \in hosts}

\* C15: linkInjections and unlinkInjections return exactly the language ids
\* bound to a host scope whose injection set the call affects, none of them
\* missing, also when several language ids were activated for one scope.
C15_ReturnsAllBoundLanguages ==
    \A s \in ScopeNames, h \in ValidHostArgs \cup {Absent} :
        /\ h # Absent => LinkReturn(h) = BoundTo(h.hosts)
        /\ UnlinkOutcome(scopeNameToInjections, s, h) = "returned"
              => UnlinkReturn(scopeNameToInjections, s, h) =
                    BoundTo(UnlinkedHosts(scopeNameToInjections, s, h))

\* C16: linkInjections(s, H) with a valid host list leaves s in the
\* injection set of every host in H, creating the set where there was none,
\* changes the set of no host outside H and removes no member.
C16_LinkAddsOnly ==
    [][\A s \in ScopeNames, h \in ValidHostArgs :
          (registry' = 0 /\ LinkInjections(s, h))
          => \A x \in ScopeNames :
                /\ x \in h.hosts
                      => /\ x \in DOMAIN scopeNameToInjections'
                         /\ s \in scopeNameToInjections'[x]
                /\ x \notin h.hosts
                      => /\ Members(scopeNameToInjections', x)
                               = Members(scopeNameToInjections, x)
                         /\ (x \in DOMAIN scopeNameToInjections'
                               <=> x \in DOMAIN scopeNameToInjections)
                /\ Members(scopeNameToInjections, x)
                      \subseteq Members(scopeNameToInjections', x)]_vars

C16_Witness ==
    /\ \E x \in DOMAIN scopeNameToInjections :
          Cardinality(scopeNameToInjections[x]) = 2
    /\ \E x \in ScopeNames : x \notin DOMAIN scopeNameToInjections

\* C17: in every registry state, linkInjections or unlinkInjections called
\* with a host list that is given but is no sequence of strings fails with
\* an error and leaves the injection sets unchanged.
C17_InvalidHostListThrows ==
    \A s \in ScopeNames :
        /\ LinkOutcome(Invalid) = "threw"
        /\ UnlinkOutcome(scopeNameToInjections, s, Invalid) = "threw"
        /\ UnlinkResult(scopeNameToInjections, s, Invalid) = scopeNameToInjections

\* C18: unlinkInjections(s, ...) called when s is a member of no host's
\* injection set is a no-op: the injection sets, the language bindings and
\* the engine are the same after the call as before.
C18_UnlinkOfUnlinkedIsNoOp ==
    [][\A s \in ScopeNames, h \in HostArgs :
          (InNoSetOf(s, ScopeNames) /\ UnlinkInjections(s, h))
          => /\ scopeNameToInjections' = scopeNameToInjections
             /\ languageIdToScopeName' = languageIdToScopeName
             /\ scopeNameToLanguageId' = scopeNameToLanguageId
             /\ registry' = registry]_vars

\* activateLanguage must fail for this scope and this language id
MustFail(s, l) ==
    \/ s \notin DOMAIN scopeNameToRawGrammars
    \/ l \in DOMAIN languageIdToScopeName

\* C19: activateLanguage fails when the scope has no registered grammar
\* and when the language id is already bound to any scope, and no step of
\* such a call changes either binding map: a step of activateLanguage
\* that changes one of them is a step of no call that had to fail.
C19_ActivateFailsWithoutBinding ==
    /\ [](\A s \in ScopeNames, l \in LanguageIds :
             MustFail(s, l) => ActivateOutcome(s, l) = "rejected")
    /\ [][( \/ languageIdToScopeName' # languageIdToScopeName
            \/ scopeNameToLanguageId' # scopeNameToLanguageId )
          => \A s \in ScopeNames, l \in LanguageIds, p \in Loads :
                ActivateLanguage(s, l, p) => ~MustFail(s, l)]_vars

C19_Witness ==
    /\ \E l \in LanguageIds : l \in DOMAIN languageIdToScopeName
    /\ \E s \in ScopeNames : s \notin DOMAIN scopeNameToRawGrammars

\* C20 as stated: a successful activateLanguage call yields true exactly
\* when the load priority is now, and false for asap and for defer.
C20_TrueOnlyForNow ==
    \A l \in DOMAIN activated :
        activated[l].stage = "done"
        => (activated[l].result = "true" <=> activated[l].load = "now")

\* C20 amended: a successful activateLanguage call yields true when the
\* load priority is now or asap, in both cases after the language has been
\* loaded, and false for defer.
C20_TrueUnlessDeferred ==
    \A l \in DOMAIN activated :
        /\ activated[l].stage = "done"
              => (activated[l].result = "true" <=> activated[l].load # "defer")
        /\ activated[l].stage # "done" => activated[l].result = "pending"

C20_Witness ==
    \E l \in DOMAIN activated :
        /\ activated[l].load = "asap"
        /\ activated[l].stage = "done"
        /\ activated[l].result = "true"

\* C21: the binding between language ids and scope names is one-to-one:
\* the language-to-scope map and the scope-to-language map are inverses of
\* each other, so no scope has two language ids bound to it.
C21_BindingOneToOne ==
    /\ \A l \in DOMAIN languageIdToScopeName :
          /\ languageIdToScopeName[l] \in DOMAIN scopeNameToLanguageId
          /\ scopeNameToLanguageId[languageIdToScopeName[l]] = l
    /\ \A s \in DOMAIN scopeNameToLanguageId :
          /\ scopeNameToLanguageId[s] \in DOMAIN languageIdToScopeName
          /\ languageIdToScopeName[scopeNameToLanguageId[s]] = s

\* ---------------------------------------------------------------------
\* Grammar sources (Highlighter.addGrammar, getGrammarDefinition)
\* ---------------------------------------------------------------------

MaxRegistrations == 2

MaxProducerCalls == 2

MaxPending == 2

\* A grammar source is a grammar object, a promise of one, or a producer
\* that returns a grammar object, returns a promise of one, or throws.
SourceKinds == {"object", "promise", "fnObject", "fnPromise", "fnThrows"}

IsFunction(g) == g.kind \in {"fnObject", "fnPromise", "fnThrows"}

\* The value in scopeNameToRawGrammars: what kind of value it is, and the
\* registration (number of the addGrammar call) it stems from.
Source(kind, reg) == [kind |-> kind, reg |-> reg]

\* addGrammar, with the kind and the identity of the source
AddGrammarSource(scopeName, kind) ==
    /\ Len(registered) < MaxRegistrations
    /\ registered' = Append(registered, [scope |-> scopeName, kind |-> kind])
    /\ scopeNameToRawGrammars' =
          MapSet(scopeNameToRawGrammars, scopeName, Source(kind, Len(registered) + 1))
    /\ UNCHANGED <<producerCalls, resolutions, yielded>>
    /\ UNCHANGED <<languageIdToScopeName, scopeNameToInjections,
                   scopeNameToLanguageId, registry, engines, activated>>
    /\ UNCHANGED coordVars
    /\ UNCHANGED <<renderVars, linkVars>>

\* the last registration for a scope
LastRegistered(scopeName) ==
    CHOOSE n \in 1..Len(registered) :
        /\ registered[n].scope = scopeName
        /\ \A m \in (n + 1)..Len(registered) : registered[m].scope # scopeName

\* what a producer returns
Produced(g) ==
    IF g.kind = "fnObject" THEN Source("object", g.reg) ELSE Source("promise", g.reg)

StoredAfterCallMutant(g) == g

\* the value getGrammarDefinition stores after it invoked the producer
StoredAfterCall(g) == Produced(g)

\* getGrammarDefinition(scopeName) up to its await or to its return
GetGrammarDefinition(scopeName) ==
    /\ scopeName \in DOMAIN scopeNameToRawGrammars
    /\ LET g == scopeNameToRawGrammars[scopeName]
           grammar == IF IsFunction(g) THEN Produced(g) ELSE g
       IN /\ IF IsFunction(g)
             THEN /\ Len(producerCalls) < MaxProducerCalls
                  /\ producerCalls' =
                        Append(producerCalls, [reg |-> g.reg, arg |-> scopeName])
             ELSE UNCHANGED producerCalls
          /\ IF g.kind = "fnThrows"
             THEN UNCHANGED <<scopeNameToRawGrammars, resolutions, yielded>>
             ELSE /\ scopeNameToRawGrammars' =
                        IF IsFunction(g)
                        THEN MapSet(scopeNameToRawGrammars, scopeName, StoredAfterCall(g))
                        ELSE scopeNameToRawGrammars
                  /\ IF grammar.kind = "promise"
                     THEN /\ Len(resolutions) < MaxPending
                          /\ resolutions' = Append(resolutions,
                                [scope |-> scopeName, reg |-> grammar.reg,
                                 latest |-> LastRegistered(scopeName)])
                          /\ UNCHANGED yielded
                     ELSE /\ yielded' = yielded \cup
                                {[scope |-> scopeName, got |-> grammar.reg,
                                  latest |-> LastRegistered(scopeName)]}
                          /\ UNCHANGED resolutions
    /\ UNCHANGED registered
    /\ UNCHANGED <<languageIdToScopeName, scopeNameToInjections,
                   scopeNameToLanguageId, registry, engines, activated>>
    /\ UNCHANGED coordVars
    /\ UNCHANGED <<renderVars, linkVars>>

Remove(seq, i) == SubSeq(seq, 1, i - 1) \o SubSeq(seq, i + 1, Len(seq))

\* getGrammarDefinition after `await grammar`, for the i-th suspended call
GrammarAwaited(i) ==
    /\ i \in 1..Len(resolutions)
    /\ resolutions' = Remove(resolutions, i)
    /\ scopeNameToRawGrammars' =
          MapSet(scopeNameToRawGrammars, resolutions[i].scope,
                 Source("object", resolutions[i].reg))
    /\ yielded' = yielded \cup {[scope |-> resolutions[i].scope,
                                 got |-> resolutions[i].reg,
                                 latest |-> resolutions[i].latest]}
    /\ UNCHANGED <<registered, producerCalls>>
    /\ UNCHANGED <<languageIdToScopeName, scopeNameToInjections,
                   scopeNameToLanguageId, registry, engines, activated>>
    /\ UNCHANGED coordVars
    /\ UNCHANGED <<renderVars, linkVars>>

SrcNext ==
    \/ \E s \in ScopeNames, k \in SourceKinds : AddGrammarSource(s, k)
    \/ \E s \in ScopeNames : GetGrammarDefinition(s)
    \/ \E i \in 1..MaxPending : GrammarAwaited(i)

SrcSpec == RegInit /\ [][SrcNext]_vars

\* the number of times the producer of registration n was invoked
TimesCalled(n) == Cardinality({i \in 1..Len(producerCalls) : producerCalls[i].reg = n})

\* C22 as stated: the producer of a registration is invoked at most once,
\* with its own scope name, however often the scope is resolved.
C22_ProducerCalledOnce ==
    /\ \A n \in 1..Len(registered) : TimesCalled(n) <= 1
    /\ \A i \in 1..Len(producerCalls) :
          producerCalls[i].arg = registered[producerCalls[i].reg].scope

\* C22 amended: a producer that returns is invoked at most once; every
\* producer, one that throws included, is invoked with its own scope name.
C22_ReturningProducerCalledOnce ==
    /\ \A n \in 1..Len(registered) :
          registered[n].kind # "fnThrows" => TimesCalled(n) <= 1
    /\ \A i \in 1..Len(producerCalls) :
          producerCalls[i].arg = registered[producerCalls[i].reg].scope

C22_Witness ==
    \E n \in 1..Len(registered) :
        /\ registered[n].kind = "fnPromise"
        /\ TimesCalled(n) = 1
        /\ \E y \in yielded : y.got = n
        /\ \E i \in 1..Len(resolutions) : resolutions[i].reg = n

\* C23: a resolution of a scope returns the grammar of the scope's last
\* registration at the time the resolution started.
C23_ResolutionYieldsLastAdded ==
    \A y \in yielded : y.got = y.latest

\* C24: loadLanguage called with a language id that is not bound returns
\* null, and the call neither constructs an engine nor invokes or resolves
\* a grammar source.
C24_UnboundLoadIsNull ==
    /\ [](\A l \in LanguageIds :
             l \notin DOMAIN languageIdToScopeName => LoadOutcome(l) = "null")
    /\ [][\A l \in LanguageIds :
             (l \notin DOMAIN languageIdToScopeName /\ LoadLanguage(l))
             => /\ registry' = registry
                /\ engines' = engines
                /\ producerCalls' = producerCalls
                /\ resolutions' = resolutions]_vars

C24_Witness ==
    /\ \E l \in LanguageIds : l \notin DOMAIN languageIdToScopeName
    /\ \E l \in LanguageIds : l \in DOMAIN languageIdToScopeName
    /\ registry = 0
    /\ engines = 1

----------------------------------------------------------------------------
\* The scope classifier (tmToCm.ts).  A scope string is written as the
\* sequence of its segments, the texts between its dots, which is what
\* scope.split(dotRE) gives; it has at least one segment.

MaxSegments == 4

Segments == {"keyword", "other", "special-method", "operator", "constant",
             "email", "link", "$", "zz"}

RECURSIVE SeqsUpTo(_, _)
SeqsUpTo(S, n) ==
    IF n = 0 THEN {<<>>}
    ELSE LET shorter == SeqsUpTo(S, n - 1)
         IN shorter \cup {Append(q, x) : q \in shorter, x \in S}

ScopeStrings == SeqsUpTo(Segments, MaxSegments) \ {<<>>}

\* the tmToCm tree, as the path and the value of each of its strings
tmToCm ==
    { <<<<"comment", "$">>, "comment">>,
      <<<<"constant", "$">>, "def">>,
      <<<<"constant", "character", "escape", "$">>, "string-2">>,
      <<<<"constant", "language", "$">>, "atom">>,
      <<<<"constant", "numeric", "$">>, "number">>,
      <<<<"constant", "other", "email", "link", "$">>, "link">>,
      <<<<"constant", "other", "symbol", "$">>, "def">>,
      <<<<"entity", "name", "class", "$">>, "def">>,
      <<<<"entity", "name", "function", "$">>, "def">>,
      <<<<"entity", "name", "tag", "$">>, "tag">>,
      <<<<"entity", "name", "type", "$">>, "type">>,
      <<<<"entity", "name", "type", "class", "$">>, "variable">>,
      <<<<"entity", "other", "attribute-name", "$">>, "attribute">>,
      <<<<"entity", "other", "inherited-class", "$">>, "def">>,
      <<<<"entity", "support", "function", "$">>, "def">>,
      <<<<"keyword", "$">>, "keyword">>,
      <<<<"keyword", "operator", "$">>, "operator">>,
      <<<<"keyword", "other", "special-method">>, "def">>,
      <<<<"punctuation", "$">>, "operator">>,
      <<<<"punctuation", "definition", "comment", "$">>, "comment">>,
      <<<<"punctuation", "definition", "tag", "$">>, "bracket">>,
      <<<<"storage", "$">>, "keyword">>,
      <<<<"string", "$">>, "string">>,
      <<<<"string", "regexp", "$">>, "string-2">>,
      <<<<"support", "class", "$">>, "def">>,
      <<<<"support", "constant", "$">>, "variable-2">>,
      <<<<"support", "function", "$">>, "def">>,
      <<<<"support", "type", "$">>, "type">>,
      <<<<"support", "variable", "$">>, "variable-2">>,
      <<<<"support", "variable", "property", "$">>, "property">>,
      <<<<"variable", "$">>, "def">>,
      <<<<"variable", "language", "$">>, "variable-3">>,
      <<<<"variable", "other", "object", "$">>, "variable">>,
      <<<<"variable", "other", "object", "property", "$">>, "property">>,
      <<<<"variable", "other", "property", "$">>, "property">>,
      <<<<"variable", "parameter", "$">>, "def">> }

IsPrefix(p, q) == Len(p) <= Len(q) /\ SubSeq(q, 1, Len(p)) = p

\* the value at a path of the tree is a string
IsString(path) == \E e \in tmToCm : e[1] = path

StringAt(path) == (CHOOSE e \in tmToCm : e[1] = path)[2]

\* the value at a path of the tree is an object: something lies below it
IsObject(path) == \E e \in tmToCm : IsPrefix(path, e[1]) /\ Len(path) < Len(e[1])

\* node.$ of an object of the tree, None for undefined
Dollar(path) ==
    IF IsString(Append(path, "$")) THEN StringAt(Append(path, "$")) ELSE None

\* walk(scopeSegments, tree), the tree given by its path.  tree[first] is an
\* object of the tree, one of its strings, or undefined.  A string is truthy,
\* so walk goes on into it; no property of a string has a property `$`, and
\* neither has the string, so that `walk(...) || node.$ || null` is null.
RECURSIVE walk(_, _)
walk(segments, tree) ==
    IF segments = <<>> THEN None
    ELSE LET first == Head(segments)
             node == Append(tree, first)
         IN IF IsObject(node)
            THEN LET deeper == walk(Tail(segments), node)
                 IN IF deeper # None THEN deeper ELSE Dollar(node)
            ELSE None

\* a scope string, not classified yet
WalkInit ==
    /\ StaticInit
    /\ scopeSegments \in ScopeStrings
    /\ walked = Unset
    /\ NoCacheYet
    /\ NoSheetYet
    /\ NoLineYet
    /\ NoScanYet

\* walk(scope.split(dotRE))
WalkScope ==
    /\ walked = Unset
    /\ walked' = walk(scopeSegments, <<>>)
    /\ UNCHANGED scopeSegments
    /\ UNCHANGED <<coordVars, languageIdToScopeName, regVars, srcVars, linkVars>>
    /\ UNCHANGED <<cacheVars, scanVars, tokVars, cssVars>>

WalkNext == WalkScope

WalkSpec == WalkInit /\ [][WalkNext]_vars

\* the classification the tree defines for the entry at a path: the `$` of
\* an object, or the string the entry is
Classification(path) ==
    IF IsObject(path) THEN Dollar(path)
    ELSE IF IsString(path) /\ path[Len(path)] # "$" THEN StringAt(path)
    ELSE None

\* the prefixes of a scope that spell a path of tree entries
Matching(scope) ==
    {k \in 1..Len(scope) :
        LET path == SubSeq(scope, 1, k)
        IN /\ IsObject(path) \/ IsString(path)
           /\ \A i \in 1..k : path[i] # "$"}

Classified(scope) ==
    {k \in Matching(scope) : Classification(SubSeq(scope, 1, k)) # None}

Deepest(ks) == CHOOSE k \in ks : \A j \in ks : j <= k

\* C30: the classification of a scope is the classification of the deepest
\* entry that has one on the path spelled by the longest matching prefix of
\* its segments, null when no entry on that path has one (in particular when
\* the first segment matches no root entry); a scope that spells the path of
\* an entry with a classification gets that classification.
C30_DeepestClassification ==
    walked # Unset =>
        walked = IF Classified(scopeSegments) = {} THEN None
                 ELSE Classification(
                         SubSeq(scopeSegments, 1, Deepest(Classified(scopeSegments))))

----------------------------------------------------------------------------
\* tmScopeToCmToken and its cache.  The cache is an LRU map: `has` looks a
\* key up, `set` makes the key the most recently used entry and drops the
\* least recently used entries beyond the capacity, `get` makes the key the
\* most recently used entry and returns its value.

\* the capacity of the cache (`max`); 2000 in the source
CacheMax == 2

MaxLookups == 4

\* the scope strings looked up
LookedUp == {<<"keyword">>, <<"keyword", "operator">>, <<"zz">>,
             <<"constant", "zz">>, <<"keyword", "other", "special-method">>}

CacheHas(c, scope) == \E i \in 1..Len(c) : c[i].scope = scope

Without(c, scope) == SelectSeq(c, LAMBDA e : e.scope # scope)

CacheSetMutant(c, scope, value) ==
    <<[scope |-> scope, value |-> value]>> \o Without(c, scope)

CacheSet(c, scope, value) ==
    LET entries == <<[scope |-> scope, value |-> value]>> \o Without(c, scope)
    IN IF Len(entries) > CacheMax THEN SubSeq(entries, 1, CacheMax) ELSE entries

\* the value cache.get returns, None for undefined
CacheGet(c, scope) ==
    IF CacheHas(c, scope)
    THEN (CHOOSE e \in {c[i] : i \in 1..Len(c)} : e.scope = scope).value
    ELSE None

\* the cache after cache.get
Touched(c, scope) ==
    IF CacheHas(c, scope)
    THEN <<[scope |-> scope, value |-> CacheGet(c, scope)]>> \o Without(c, scope)
    ELSE c

\* the cache after tmScopeToCmToken(scope) and what the call returns
Lookup(c, scope) ==
    LET filled == IF ~CacheHas(c, scope)
                  THEN CacheSet(c, scope, walk(scope, <<>>))
                  ELSE c
    IN [cache |-> Touched(filled, scope), returned |-> CacheGet(filled, scope)]

tmScopeToCmToken(scope) ==
    /\ Len(lookups) < MaxLookups
    /\ cache' = Lookup(cache, scope).cache
    /\ lookups' = Append(lookups, [scope |-> scope,
                                   returned |-> Lookup(cache, scope).returned])
    /\ UNCHANGED <<coordVars, languageIdToScopeName, regVars, srcVars, linkVars>>
    /\ UNCHANGED <<walkVars, scanVars, tokVars, cssVars>>

CacheNext == \E scope \in LookedUp : tmScopeToCmToken(scope)

CacheSpec == RegInit /\ [][CacheNext]_vars

\* C26: every tmScopeToCmToken call returns what the walk of the tree gives
\* for its scope string, null included, whatever was looked up and evicted
\* before, and the cache never holds more entries than its capacity.
C26_CacheIsTransparent ==
    /\ \A i \in 1..Len(lookups) :
          lookups[i].returned = walk(lookups[i].scope, <<>>)
    /\ Len(cache) <= CacheMax

\* a scope is looked up, evicted by lookups of more scopes than the cache
\* holds, and looked up again; a lookup gave null
C26_Witness ==
    /\ Len(lookups) = MaxLookups
    /\ lookups[MaxLookups].scope = lookups[1].scope
    /\ Cardinality({lookups[i].scope : i \in 1..(MaxLookups - 1)}) = MaxLookups - 1
    /\ MaxLookups - 2 >= CacheMax
    /\ \E i \in 1..Len(lookups) : lookups[i].returned = None
    /\ \E i \in 1..Len(lookups) : lookups[i].returned # None

----------------------------------------------------------------------------
\* From the scope stack of a token to its class (Highlighter.ts 211-237).
\* The engine gives every token at least the root scope of its grammar.

MaxScopes == 3

Stacks == SeqsUpTo(StackScopes, MaxScopes) \ {<<>>}

\* foreground of a rule: an index of the colour table, 0 for no colour
Foregrounds == 0..2

\* fontStyle of a rule: 0 none, 1 italic, 2 bold, 3 italic and bold
FontStyles == 0..3

Rules == [foreground : Foregrounds, fontStyle : FontStyles]

Highlighters ==
    {[themed |-> FALSE, match |-> [s \in StackScopes |-> NoRule]]}
        \cup {[themed |-> TRUE, match |-> m] : m \in [StackScopes -> Rules]}

\* a token's scope stack and the Highlighter whose tokenizer met the token
ScanInit ==
    /\ StaticInit
    /\ NoWalkYet
    /\ NoCacheYet
    /\ NoSheetYet
    /\ NoLineYet
    /\ highlighter \in Highlighters
    /\ scopes \in Stacks
    /\ cmToken = Unset

\* the do-while loop of Highlighter.tmScopeToCmToken from scopes[i] on: the
\* class, and the cache the calls of tmScopeToCmToken leave
RECURSIVE ScanCm(_, _, _)
ScanCm(stack, i, c) ==
    LET r == Lookup(c, stack[i])
    IN IF r.returned # None \/ i - 1 < 1
       THEN [cmToken |-> r.returned, cache |-> r.cache]
       ELSE ScanCm(stack, i - 1, r.cache)

TmThemeClassMutant(rule) == "tm-" \o ToString(rule.foreground)

\* the class for a rule with a colour
TmThemeClass(rule) ==
    LET tm == "tm-" \o ToString(rule.foreground)
    IN IF rule.fontStyle = 0 THEN tm
       ELSE IF rule.fontStyle = 1 THEN tm \o " em"
       ELSE IF rule.fontStyle = 2 THEN tm \o " strong"
       ELSE tm

\* the do-while loop of Highlighter.tmScopeToTmThemeToken from scopes[i] on
RECURSIVE ScanTheme(_, _, _)
ScanTheme(match, stack, i) ==
    LET rule == match[stack[i]]
        token == IF rule.foreground > 0 THEN TmThemeClass(rule) ELSE None
    IN IF token # None \/ i - 1 < 1 THEN token ELSE ScanTheme(match, stack, i - 1)

\* this.theme ? this.tmScopeToTmThemeToken(scopes) : this.tmScopeToCmToken(scopes)
ClassifyToken ==
    /\ cmToken = Unset
    /\ IF highlighter.themed
       THEN /\ cmToken' = ScanTheme(highlighter.match, scopes, Len(scopes))
            /\ UNCHANGED cacheVars
       ELSE LET r == ScanCm(scopes, Len(scopes), cache)
            IN /\ cmToken' = r.cmToken
               /\ cache' = r.cache
               /\ UNCHANGED lookups
    /\ UNCHANGED <<highlighter, scopes>>
    /\ UNCHANGED <<coordVars, languageIdToScopeName, regVars, srcVars, linkVars>>
    /\ UNCHANGED <<walkVars, tokVars, cssVars>>

ScanNext == ClassifyToken

ScanSpec == ScanInit /\ [][ScanNext]_vars

\* the scopes of the stack that yield a hit
Hits ==
    {i \in 1..Len(scopes) :
        IF highlighter.themed
        THEN highlighter.match[scopes[i]].foreground > 0
        ELSE walk(scopes[i], <<>>) # None}

Innermost == CHOOSE i \in Hits : \A j \in Hits : j <= i

\* C29: the class returned for a token is derived from the innermost scope of
\* its stack that yields a hit and is null when no scope yields one; without
\* a theme a hit is a non-null classification of the scope, which is the
\* class; with a theme a hit is a best rule with foreground index N > 0, and
\* the class is tm-N, followed by ' em' for style flag 1 and by ' strong' for
\* style flag 2.
C29_InnermostHit ==
    cmToken # Unset =>
        cmToken =
            IF Hits = {} THEN None
            ELSE IF ~highlighter.themed THEN walk(scopes[Innermost], <<>>)
            ELSE LET rule == highlighter.match[scopes[Innermost]]
                     tm == "tm-" \o ToString(rule.foreground)
                 IN CASE rule.fontStyle = 1 -> tm \o " em"
                      [] rule.fontStyle = 2 -> tm \o " strong"
                      [] OTHER -> tm

\* a themed token whose innermost scope has no colour and whose class comes
\* from an outer scope with an italic rule, or a theme-less token whose two
\* innermost scopes are not classified
C29_Witness ==
    /\ cmToken # Unset
    /\ Len(scopes) = MaxScopes
    /\ Hits # {}
    /\ Innermost < Len(scopes)
    /\ \/ highlighter.themed /\ cmToken = "tm-2 em"
       \/ ~highlighter.themed /\ Innermost = 1 /\ cmToken = "keyword"

----------------------------------------------------------------------------
\* The tokenizer closure of getTokenizer (Highlighter.ts 188-208) and the mode
\* defineMode gives it to (index.ts 70-78).  The editor hands the closure the
\* stream of a line, at position 0 first, and the state of the line before or
\* a copy of it.  The engine's result for a line is any split of the line
\* into tokens with increasing end offsets, and any rule stack.

MaxLineLength == 3

MaxLines == 2

RuleStacks == 1..2

\* the scope stacks of the tokens
TokenStacks == {<<<<"zz">>, <<"keyword">>>>, <<<<"zz">>, <<"keyword", "operator">>>>}

\* the Highlighters that make the tokenizer: one without theme, one with
TokHighlighters ==
    {[themed |-> FALSE, match |-> [s \in StackScopes |-> NoRule]],
     [themed |-> TRUE,
      match |-> [s \in StackScopes |->
                    IF s = <<"keyword">> THEN [foreground |-> 1, fontStyle |-> 0]
                    ELSE IF s = <<"zz">> THEN NoRule
                    ELSE [foreground |-> 2, fontStyle |-> 1]]]}

Ith(E, i) == CHOOSE e \in E : Cardinality({x \in E : x < e}) = i - 1

\* tokens that end at the offsets E with the scope stacks f
TokensOver(E, f) ==
    [i \in 1..Cardinality(E) |-> [endIndex |-> Ith(E, i), scopes |-> f[Ith(E, i)]]]

\* what grammar.tokenizeLine can return for a line of a length
Tokenizations(len) ==
    UNION {{[tokens |-> TokensOver(E, f), ruleStack |-> r] :
                f \in [E -> TokenStacks], r \in RuleStacks} :
           E \in (SUBSET (1..len)) \ {{}}}

TokInit ==
    /\ StaticInit
    /\ NoWalkYet
    /\ NoCacheYet
    /\ NoSheetYet
    /\ highlighter \in TokHighlighters
    /\ scopes = <<>>
    /\ cmToken = Unset
    /\ stream \in {[pos |-> 0, len |-> n] : n \in 1..MaxLineLength}
    /\ state = [ruleStack |-> INITIAL, tokensCache |-> <<>>]
    /\ lineNo = 1
    /\ carried = INITIAL
    /\ tokenized = <<>>
    /\ returned = <<>>

EatWhileMutant(pos, endIndex, len) == len

\* the position after stream.eatWhile(() => stream.pos < endIndex): the
\* stream eats characters one by one and has none left at len
EatWhile(pos, endIndex, len) ==
    IF pos < endIndex /\ pos < len
    THEN IF endIndex < len THEN endIndex ELSE len
    ELSE pos

\* the closure from `const { tokensCache } = state` on, st being the state
\* by then
Consume(st) ==
    IF st.tokensCache = <<>>
    THEN /\ stream' = [stream EXCEPT !.pos = stream.len]
         /\ state' = st
         /\ returned' = Append(returned, [class |-> None, pos |-> stream.len])
         /\ UNCHANGED cache
    ELSE LET nextToken == Head(st.tokensCache)
             pos == EatWhile(stream.pos, nextToken.endIndex, stream.len)
             stack == nextToken.scopes
             cm == ScanCm(stack, Len(stack), cache)
             class == IF highlighter.themed
                      THEN ScanTheme(highlighter.match, stack, Len(stack))
                      ELSE cm.cmToken
         IN /\ stream' = [stream EXCEPT !.pos = pos]
            /\ state' = [st EXCEPT !.tokensCache = Tail(st.tokensCache)]
            /\ returned' = Append(returned, [class |-> class, pos |-> pos])
            /\ cache' = IF highlighter.themed THEN cache ELSE cm.cache

\* one invocation of the tokenizer
Token ==
    /\ lineNo >= 1
    /\ Len(returned) <= MaxLineLength
    /\ IF stream.pos = 0
       THEN \E result \in Tokenizations(stream.len) :
               /\ tokenized' = Append(tokenized,
                                      [given |-> state.ruleStack, result |-> result])
               /\ Consume([ruleStack |-> result.ruleStack,
                           tokensCache |-> result.tokens])
       ELSE /\ Consume(state)
            /\ UNCHANGED tokenized
    /\ UNCHANGED <<lineNo, carried, lookups>>
    /\ UNCHANGED <<coordVars, languageIdToScopeName, regVars, srcVars, linkVars>>
    /\ UNCHANGED <<walkVars, scanVars, cssVars>>

\* copyState
CopyState(st) == [ruleStack |-> st.ruleStack, tokensCache |-> <<>>]

\* the editor goes on to the next line, with the state the tokenizer left or
\* with a copy of it
NextLine(copy) ==
    /\ lineNo >= 1
    /\ lineNo < MaxLines
    /\ tokenized # <<>>
    /\ lineNo' = lineNo + 1
    /\ \E n \in 1..MaxLineLength : stream' = [pos |-> 0, len |-> n]
    /\ state' = IF copy THEN CopyState(state) ELSE state
    /\ carried' = tokenized[Len(tokenized)].result.ruleStack
    /\ tokenized' = <<>>
    /\ returned' = <<>>
    /\ UNCHANGED cacheVars
    /\ UNCHANGED <<coordVars, languageIdToScopeName, regVars, srcVars, linkVars>>
    /\ UNCHANGED <<walkVars, scanVars, cssVars>>

TokNext ==
    \/ Token
    \/ \E copy \in BOOLEAN : NextLine(copy)

TokSpec == TokInit /\ [][TokNext]_vars

\* the class of a scope stack, the cache left aside
ClassOf(stack) ==
    IF highlighter.themed
    THEN ScanTheme(highlighter.match, stack, Len(stack))
    ELSE ScanCm(stack, Len(stack), <<>>).cmToken

\* C25: for a line the engine, given the carried rule stack, splits into
\* tokens t1..tn with increasing end offsets, the i-th invocation of the
\* tokenizer returns the class of ti and leaves the stream at the end offset
\* of ti, the engine is asked once for the line, the invocation after the
\* n-th moves the stream to the end of the line and returns null, and the
\* state holds the rule stack the engine returned, which the engine is given
\* for the next line.
C25_TokensInOrder ==
    /\ returned = <<>> => tokenized = <<>> /\ state.ruleStack = carried
    /\ returned # <<>> =>
          /\ Len(tokenized) = 1
          /\ tokenized[1].given = carried
          /\ state.ruleStack = tokenized[1].result.ruleStack
          /\ LET tokens == tokenized[1].result.tokens
             IN \A i \in 1..Len(returned) :
                   /\ i <= Len(tokens) =>
                         returned[i] = [class |-> ClassOf(tokens[i].scopes),
                                        pos |-> tokens[i].endIndex]
                   /\ i = Len(tokens) + 1 =>
                         returned[i] = [class |-> None, pos |-> stream.len]

\* the second line, reached with the rule stack of the first: its two tokens
\* of different classes were returned, and one more invocation moved the
\* stream from the end of the last token to the end of the line
C25_Witness ==
    /\ lineNo = MaxLines
    /\ carried # INITIAL
    /\ Len(tokenized) = 1
    /\ Len(tokenized[1].result.tokens) = 2
    /\ Len(returned) = 3
    /\ returned[1].class # returned[2].class
    /\ returned[2].pos < returned[3].pos
    /\ returned[3].class = None

----------------------------------------------------------------------------
\* cssTextFromTmTheme (tmToCm.ts 37-130).  A line of the text is written as
\* the tuple of the parts the code puts together; the text is its lines
\* joined by newlines.  The theme engine numbers the colours of a theme and
\* gives, for a scope, the number of the foreground of the best rule, 0 when
\* no rule colours the scope.

MaxRules == 2

MaxColors == 2

AllSettings == [background |-> "#bg", foreground |-> "#fg", caret |-> "#caret",
                lineHighlight |-> "#line", selection |-> "#sel"]

\* the `settings` of a rule without scope
GeneralSettings ==
    {NoSettings, AllSettings,
     [NoSettings EXCEPT !.background = "#bg"],
     [NoSettings EXCEPT !.caret = "#caret"]}

\* the rules of a theme: without scope, or for a scope
ThemeRules ==
    {[scope |-> None, settings |-> g] : g \in GeneralSettings}
        \cup {[scope |-> "keyword", settings |-> NoSettings]}

GutterSettings ==
    {NoGutter,
     [NoGutter EXCEPT !.given = TRUE],
     [given |-> TRUE, background |-> "#gbg", divider |-> "#div",
      foreground |-> "#gfg", lineActiveBackground |-> "#lab",
      lineActiveForeground |-> "#laf"]}

RawThemes ==
    [name : {"T1"}, settings : SeqsUpTo(ThemeRules, MaxRules),
     gutterSettings : GutterSettings]

\* the scopes the themes colour
ColouredScopes == {"keyword", "keyword.operator", "comment"}

Color(i) == "#c" \o ToString(i)

\* colour tables of n colours, numbered from 1; index 0 of the table is
\* empty or holds a colour
TmThemes ==
    UNION {[match : {[s \in MatchedScopes |->
                        IF s \in ColouredScopes THEN c[s] ELSE 0] :
                     c \in [ColouredScopes -> 0..n]},
            colorMap : {[i \in 1..n |-> Color(i)]},
            zero : {None, Color(0)}] : n \in 1..MaxColors}

CssInit ==
    /\ StaticInit
    /\ NoWalkYet
    /\ NoCacheYet
    /\ NoScanYet
    /\ NoLineYet
    /\ rawTheme \in RawThemes
    /\ tmTheme \in TmThemes
    /\ cssText = Unset

\* `.cm-s-${name}`
Prefix(name) == ".cm-s-" \o name

\* zero or one line, for a setting that may be missing
Line(setting, line) == IF setting # None THEN <<line>> ELSE <<>>

\* the lines pushed for generalSettings
ChromeLines(prefix, g) ==
    <<<<prefix, ".CodeMirror {">>>>
        \o Line(g.background, <<"\tbackground: ", g.background, ";">>)
        \o Line(g.foreground, <<"\tcolor: ", g.foreground, ";">>)
        \o <<<<"}">>>>
        \o Line(g.caret,
                <<prefix, " .CodeMirror-cursor { border-left-color: ", g.caret, "; }">>)
        \o Line(g.lineHighlight,
                <<prefix, " .CodeMirror-activeline-background { background: ",
                  g.lineHighlight, "; }">>)
        \o Line(g.selection,
                <<prefix, " .CodeMirror-selected { background: ", g.selection, "; }">>)

\* the lines pushed for gutterSettings
GutterLines(prefix, g) ==
    <<<<prefix, " .CodeMirror-gutters {">>>>
        \o Line(g.background, <<"\tbackground: ", g.background, ";">>)
        \o Line(g.divider, <<"\tborder-right-color: ", g.divider, ";">>)
        \o <<<<"}">>>>
        \o Line(g.foreground,
                <<prefix, " .CodeMirror-linenumber { color: ", g.foreground, "; }">>)
        \o Line(g.lineActiveBackground,
                <<prefix, " .CodeMirror-activeline .CodeMirror-activeline-gutter { background: ",
                  g.lineActiveBackground, "; }">>)
        \o Line(g.lineActiveForeground,
                <<prefix, " .CodeMirror-activeline .CodeMirror-linenumber { color: ",
                  g.lineActiveForeground, "; }">>)

\* cccmTokenColors[token] for the k-th category
ColorId(th, k) ==
    IF cccmTokenColors[k][2] = None THEN 0 ELSE th.match[cccmTokenColors[k][2]]

\* the lines pushed by the loop over cccmTokenColors, from the k-th category on
RECURSIVE TokenLines(_, _, _)
TokenLines(prefix, th, k) ==
    IF k > Len(cccmTokenColors) THEN <<>>
    ELSE (IF ColorId(th, k) # 0
          THEN <<<<prefix, " .cm-", cccmTokenColors[k][1], " { color: ",
                   th.colorMap[ColorId(th, k)], " }">>>>
          ELSE <<>>)
         \o TokenLines(prefix, th, k + 1)

ColorMapLinesMutant(prefix, th) ==
    [i \in 1..(Len(th.colorMap) - 1) |->
        <<prefix, " .cm-tm-", i, " { color: ", th.colorMap[i], " }">>]

\* ...colorMap.map((color, i) => ...): a line for every index that holds a
\* colour, and an empty line for index 0 when it is empty
ColorMapLines(prefix, th) ==
    <<IF th.zero = None THEN <<>>
      ELSE <<prefix, " .cm-tm-", 0, " { color: ", th.zero, " }">>>>
        \o [i \in 1..Len(th.colorMap) |->
               <<prefix, " .cm-tm-", i, " { color: ", th.colorMap[i], " }">>]

\* the index of the first rule without scope, 0 when there is none
FindGeneral(settings) ==
    IF \E i \in 1..Len(settings) : settings[i].scope = None
    THEN CHOOSE i \in 1..Len(settings) :
            /\ settings[i].scope = None
            /\ \A j \in 1..(i - 1) : settings[j].scope # None
    ELSE 0

cssTextFromTmTheme ==
    /\ cssText = Unset
    /\ LET prefix == Prefix(rawTheme.name)
           general == FindGeneral(rawTheme.settings)
       IN cssText' =
             (IF general # 0
              THEN ChromeLines(prefix, rawTheme.settings[general].settings)
              ELSE <<>>)
             \o (IF rawTheme.gutterSettings.given
                 THEN GutterLines(prefix, rawTheme.gutterSettings)
                 ELSE <<>>)
             \o TokenLines(prefix, tmTheme, 1)
             \o ColorMapLines(prefix, tmTheme)
    /\ UNCHANGED <<rawTheme, tmTheme>>
    /\ UNCHANGED <<coordVars, languageIdToScopeName, regVars, srcVars, linkVars>>
    /\ UNCHANGED <<walkVars, cacheVars, scanVars, tokVars>>

CssNext == cssTextFromTmTheme

CssSpec == CssInit /\ [][CssNext]_vars

\* the positions of the lines of the text that satisfy a condition
LinesWhere(Test(_)) == {i \in 1..Len(cssText) : Test(cssText[i])}

IsChromeOpen(line) == line = <<Prefix(rawTheme.name), ".CodeMirror {">>

IsGutterOpen(line) == line = <<Prefix(rawTheme.name), " .CodeMirror-gutters {">>

IsTokenRule(line) == Len(line) = 6 /\ line[2] = " .cm-"

IsIndexRule(line) == Len(line) = 6 /\ line[2] = " .cm-tm-"

\* a line is a rule or opens one, rather than a declaration, a closing brace
\* or an empty line
IsRule(line) == Len(line) > 1 /\ line[1] \notin {"\tbackground: ", "\tcolor: ",
                                                "\tborder-right-color: "}

\* the categories that get a rule, in their order
ColouredCategories ==
    SelectSeq([k \in 1..Len(cccmTokenColors) |-> k],
              LAMBDA k : ColorId(tmTheme, k) # 0)

\* the indexes of the colour table
Indexes == (IF tmTheme.zero = None THEN {} ELSE {0}) \cup DOMAIN tmTheme.colorMap

\* the foreground indexes the themed tokenizer can make a class tm-N of
Returnable == {tmTheme.match[s] : s \in MatchedScopes} \ {0}

Before(A, B) == \A i \in A, j \in B : i < j

\* C27: the text has, in this order, the chrome block exactly when the theme
\* has a rule without scope, the gutter block exactly when gutter settings
\* are given, one rule per flat category whose scope has a colour, and one
\* rule for every index of the colour table, so that every class tm-N the
\* themed tokenizer can return has a rule; every rule starts with the class
\* .cm-s-<theme name>.
C27_SheetLayout ==
    cssText # Unset =>
        LET chrome == LinesWhere(IsChromeOpen)
            gutter == LinesWhere(IsGutterOpen)
            token == LinesWhere(IsTokenRule)
            index == LinesWhere(IsIndexRule)
        IN /\ (chrome # {}) <=>
                 \E i \in 1..Len(rawTheme.settings) : rawTheme.settings[i].scope = None
           /\ (gutter # {}) <=> rawTheme.gutterSettings.given
           /\ Cardinality(chrome) <= 1 /\ Cardinality(gutter) <= 1
           /\ Cardinality(token) = Len(ColouredCategories)
           /\ \A n \in 1..Len(ColouredCategories) :
                 \E i \in token :
                    /\ Cardinality({j \in token : j < i}) = n - 1
                    /\ cssText[i][3] = cccmTokenColors[ColouredCategories[n]][1]
                    /\ cssText[i][5] =
                          tmTheme.colorMap[ColorId(tmTheme, ColouredCategories[n])]
           /\ \A n \in Indexes :
                 Cardinality({i \in index : cssText[i][3] = n}) = 1
           /\ \A i \in index : cssText[i][3] \in Indexes
           /\ \A n \in Returnable : \E i \in index : cssText[i][3] = n
           /\ Before(chrome, gutter) /\ Before(gutter, token) /\ Before(token, index)
           /\ Before(chrome, token) /\ Before(chrome, index) /\ Before(gutter, index)
           /\ \A i \in 1..Len(cssText) :
                 IsRule(cssText[i]) => cssText[i][1] = Prefix(rawTheme.name)

\* a theme with a rule for a scope before its rule without scope, with
\* gutter settings, two coloured categories and a colour table whose index 0
\* is empty
C27_Witness ==
    /\ cssText # Unset
    /\ Len(rawTheme.settings) = 2
    /\ rawTheme.settings[1].scope # None
    /\ rawTheme.settings[2].scope = None
    /\ rawTheme.gutterSettings.given
    /\ Cardinality(LinesWhere(IsTokenRule)) = 2
    /\ tmTheme.zero = None
    /\ Cardinality(LinesWhere(IsIndexRule)) = MaxColors

----------------------------------------------------------------------------
\* C28: whenever a language id is recorded as baked with a theme, the
\* tokenizer installed for the mode of that id was produced by the Highlighter
\* of that theme; and the record of a language id changes only in a step that
\* installs a tokenizer for it, not in an attempt that is canceled or fails
\* while it acquires the tokenizer.
C28_RecordMatchesTokenizer ==
    /\ [](\A l \in LanguageIds :
             cmModeToTheme[l] # None => cmModes[l] = cmModeToTheme[l])
    /\ [][\A l \in LanguageIds :
             cmModeToTheme'[l] # cmModeToTheme[l]
                => cmModes'[l] = cmModeToTheme'[l]]_vars

----------------------------------------------------------------------------
\* The init hook of an editor (index.ts 217-242).  updateInstance runs at the
\* creation of the editor, at every swapDoc and at every change of the mode or
\* theme option.  setOption('mode', ...) sets the option and signals
\* optionChange before it returns, also when the value is the one the option
\* has.

IgnoresMutant(flag, last, langId) == FALSE

\* `shouldIgnoreNextEvent && langId === lastLanguageId`
Ignores(flag, last, langId) == flag /\ langId = last

\* updateInstance up to its return or to `await safeUpdateCM(cm)`, called when
\* the editor's options are m and t (the option change that triggers the call
\* is part of the step)
UpdateInstance(cm, m, t) ==
    IF Ignores(shouldIgnoreNextEvent[cm], lastLanguageId[cm], m)
    THEN /\ shouldIgnoreNextEvent' = [shouldIgnoreNextEvent EXCEPT ![cm] = FALSE]
         /\ mode' = [mode EXCEPT ![cm] = m]
         /\ theme' = [theme EXCEPT ![cm] = t]
         /\ UNCHANGED <<lastLanguageId, updates>>
         /\ UNCHANGED <<themedHighlighters, bindingVars, cmModes, queue,
                        resolverCallbacks, currentActivation, activations,
                        proceeds, promises, uncaught>>
         /\ UNCHANGED <<languageIdToScopeName, regVars, otherVars>>
    ELSE /\ SafeUpdateCM(cm, m, t)
         /\ updates' = updates \cup {[cm |-> cm, langId |-> m,
                                      prom |-> Len(promises) + 1]}
         /\ UNCHANGED <<shouldIgnoreNextEvent, lastLanguageId>>

\* updateInstance after `await safeUpdateCM(cm)`: on true it sets its two
\* variables and re-applies the mode, and the optionChange handler runs
\* updateInstance before setOption returns
UpdateInstanceResume(u) ==
    /\ u \in updates
    /\ promises[u.prom].state # "pending"
    /\ IF promises[u.prom].state # "true"
       THEN /\ updates' = updates \ {u}
            /\ UNCHANGED <<shouldIgnoreNextEvent, lastLanguageId>>
            /\ UNCHANGED <<mode, theme, themedHighlighters, bindingVars, cmModes,
                           queue, resolverCallbacks, currentActivation,
                           activations, proceeds, promises, uncaught>>
            /\ UNCHANGED <<languageIdToScopeName, regVars, otherVars>>
       ELSE /\ lastLanguageId' = [lastLanguageId EXCEPT ![u.cm] = u.langId]
            /\ IF Ignores(TRUE, u.langId, u.langId)
               THEN /\ shouldIgnoreNextEvent' =
                          [shouldIgnoreNextEvent EXCEPT ![u.cm] = FALSE]
                    /\ mode' = [mode EXCEPT ![u.cm] = u.langId]
                    /\ updates' = updates \ {u}
                    /\ UNCHANGED <<theme, themedHighlighters, bindingVars, cmModes,
                                   queue, resolverCallbacks, currentActivation,
                                   activations, proceeds, promises, uncaught>>
                    /\ UNCHANGED <<languageIdToScopeName, regVars, otherVars>>
               ELSE /\ shouldIgnoreNextEvent' =
                          [shouldIgnoreNextEvent EXCEPT ![u.cm] = TRUE]
                    /\ SafeUpdateCM(u.cm, u.langId, theme[u.cm])
                    /\ updates' = (updates \ {u})
                                     \cup {[cm |-> u.cm, langId |-> u.langId,
                                            prom |-> Len(promises) + 1]}

\* the themes the editors are given
DriverThemes == {"default", "T1"}

\* the coordinator with the init hook of every editor as its caller
DriverNext ==
    \/ \E cm \in Editors, m \in LanguageIds, t \in DriverThemes : UpdateInstance(cm, m, t)
    \/ \E u \in updates : UpdateInstanceResume(u)
    \/ /\ \E i \in 1..Len(activations) : TokenizerReady(i)
       /\ UNCHANGED driverVars
    \/ /\ \E i \in 1..Len(activations) : TokenizerFails(i)
       /\ UNCHANGED driverVars
    \/ /\ \E p \in proceeds : ProceedResume(p)
       /\ UNCHANGED driverVars

DriverSpec == Init /\ [][DriverNext]_vars

\* C31: the driver re-applies the mode option only after the coordinator has
\* reported true for the editor; the notification caused by the
\* re-application starts no coordinator request and clears the guard flag, so
\* that the flag is clear at every other notification, and a change of the
\* mode or of the theme starts a coordinator request.
C31_GuardSwallowsOnlyReapply ==
    /\ [](\A cm \in Editors : ~shouldIgnoreNextEvent[cm])
    /\ [][\A u \in updates :
             u \notin updates'
                => /\ Len(promises') = Len(promises)
                   /\ promises[u.prom].cm = u.cm
                   /\ promises[u.prom].state # "true"
                         => mode' = mode /\ lastLanguageId' = lastLanguageId]_vars
    /\ [][(updates \subseteq updates' /\ (mode' # mode \/ theme' # theme))
             => Len(promises') = Len(promises) + 1]_vars

\* the driver of an editor has re-applied a language, and a later
\* notification with the same language has started a request
C31_Witness ==
    \E u \in updates :
        /\ lastLanguageId[u.cm] = u.langId
        /\ mode[u.cm] = u.langId
        /\ promises[u.prom].state = "pending"
        /\ \E k \in 1..(u.prom - 1) :
              promises[k].cm = u.cm /\ promises[k].state = "true"
        /\ \A v \in updates : v = u

\* ---------------------------------------------------------------------
\* The exported linkInjections and unlinkInjections (index.ts)
\* ---------------------------------------------------------------------

MaxLinks == 2

InvalidatedMutant(modeToTheme, langs) == modeToTheme

\* cmModeToTheme after `cmModeToTheme.delete(lang)` for every language of the
\* array
Invalidated(modeToTheme, langs) ==
    [l \in DOMAIN modeToTheme |-> IF l \in langs THEN None ELSE modeToTheme[l]]

\* the languages whose delete returned true: loadLanguage is awaited for them
Preloaded(modeToTheme, langs) == {l \in langs : modeToTheme[l] # None}

\* updateCmTmBindings(null, langs) after the Highlighter purged its engine, up
\* to the await of the loads: the records are deleted and the first
\* loadLanguage that reaches the registry builds a new engine. With nothing to
\* load the call resolves before any other task runs.
Invalidate(langs) ==
    LET loading == Preloaded(cmModeToTheme, langs)
    IN /\ cmModeToTheme' = Invalidated(cmModeToTheme, langs)
       /\ IF \E l \in loading : ~LoadReturnsNull(l)
          THEN /\ engines < MaxEngines
               /\ registry' = engines + 1
               /\ engines' = engines + 1
          ELSE /\ registry' = Purged
               /\ UNCHANGED engines
       /\ links' = Append(links,
             [languages |-> langs,
              loading |-> loading,
              state |-> IF loading = {} THEN "resolved" ELSE "awaiting",
              acts |-> Len(activations)])

\* a call that ends without an array of languages: rejected when the
\* Highlighter threw, resolved with undefined when it returned nothing
Ended(how) == [languages |-> {}, loading |-> {}, state |-> how,
               acts |-> Len(activations)]

\* the exported linkInjections, up to its await
linkInjections(scopeName, h) ==
    /\ Len(links) < MaxLinks
    /\ IF LinkOutcome(h) = "threw"
       THEN /\ links' = Append(links, Ended("rejected"))
            /\ UNCHANGED <<scopeNameToInjections, registry, engines, cmModeToTheme>>
       ELSE /\ scopeNameToInjections' =
                   InjectionsAfterLink(scopeNameToInjections, scopeName, h.hosts)
            /\ Invalidate(LinkReturn(h))
    /\ UNCHANGED <<mode, theme, themedHighlighters, cmThemeRecord,
                   tmThemeStyleNodes, documentHead, cmModes, queue,
                   resolverCallbacks, currentActivation, activations, proceeds,
                   promises, uncaught, driverVars>>
    /\ UNCHANGED <<languageIdToScopeName, scopeNameToRawGrammars,
                   scopeNameToLanguageId, activated>>
    /\ UNCHANGED <<srcVars, renderVars>>

\* the exported unlinkInjections, up to its await
unlinkInjections(scopeName, h) ==
    /\ Len(links) < MaxLinks
    /\ IF UnlinkOutcome(scopeNameToInjections, scopeName, h) = "returned"
       THEN /\ scopeNameToInjections' =
                   InjectionsAfterUnlink(scopeNameToInjections, scopeName, h)
            /\ Invalidate(UnlinkReturn(scopeNameToInjections, scopeName, h))
       ELSE /\ links' = Append(links,
                   IF UnlinkOutcome(scopeNameToInjections, scopeName, h) = "threw"
                   THEN Ended("rejected") ELSE Ended("resolved"))
            /\ UNCHANGED <<scopeNameToInjections, registry, engines, cmModeToTheme>>
    /\ UNCHANGED <<mode, theme, themedHighlighters, cmThemeRecord,
                   tmThemeStyleNodes, documentHead, cmModes, queue,
                   resolverCallbacks, currentActivation, activations, proceeds,
                   promises, uncaught, driverVars>>
    /\ UNCHANGED <<languageIdToScopeName, scopeNameToRawGrammars,
                   scopeNameToLanguageId, activated>>
    /\ UNCHANGED <<srcVars, renderVars>>

\* every awaited loadLanguage is done: updateCmTmBindings resolves false and
\* the exported function returns the languages
InvalidateResume(k) ==
    /\ links[k].state = "awaiting"
    /\ links' = [links EXCEPT ![k].state = "resolved",
                              ![k].acts = Len(activations)]
    /\ UNCHANGED <<coordVars, languageIdToScopeName, regVars, srcVars, renderVars>>

\* an awaited loadLanguage rejects: the async executor ends with an unhandled
\* rejection, the PCancelable never settles and neither does the call
InvalidateFails(k) ==
    /\ links[k].state = "awaiting"
    /\ links' = [links EXCEPT ![k].state = "abandoned"]
    /\ uncaught' = uncaught \cup {"loadLanguage"}
    /\ UNCHANGED <<mode, theme, themedHighlighters, bindingVars, cmModes, queue,
                   resolverCallbacks, currentActivation, activations, proceeds,
                   promises, driverVars>>
    /\ UNCHANGED <<languageIdToScopeName, regVars, srcVars, renderVars>>

\* the scope the application injects into others
InjectedScopes == {"S2"}

\* the language the editors are switched to: the one bound to a scope, which
\* the Highlighter can return as affected
LinkedLanguages == {"L1"}

\* the coordinator with an application that links and unlinks injections
LinkNext ==
    \/ /\ \E cm \in Editors, m \in LinkedLanguages, t \in DriverThemes : SafeUpdateCM(cm, m, t)
       /\ UNCHANGED driverVars
    \/ /\ \E i \in 1..Len(activations) : TokenizerReady(i)
       /\ UNCHANGED driverVars
    \/ /\ \E i \in 1..Len(activations) : TokenizerFails(i)
       /\ UNCHANGED driverVars
    \/ /\ \E p \in proceeds : ProceedResume(p)
       /\ UNCHANGED driverVars
    \/ \E s \in InjectedScopes, h \in HostArgs : linkInjections(s, h)
    \/ \E s \in InjectedScopes, h \in HostArgs : unlinkInjections(s, h)
    \/ \E k \in 1..Len(links) : InvalidateResume(k)
    \/ \E k \in 1..Len(links) : InvalidateFails(k)

LinkSpec == Init /\ [][LinkNext]_vars

\* the rebind attempts started for language l since call k resolved
AttemptsSince(k, l) ==
    {i \in (links[k].acts + 1)..Len(activations) : activations[i].languageId = l}

\* C32: once an exported linkInjections or unlinkInjections call has
\* resolved, no language id it returned is recorded as baked with a theme
\* until a rebind attempt for that language starts, and the first such
\* attempt does not take the no-change path: it awaits a tokenizer and, when
\* it resolves, it has installed the tokenizer and resolves true.
C32_RelinkedLanguagesRebind ==
    \A k \in 1..Len(links) :
        links[k].state = "resolved" =>
            \A l \in links[k].languages :
                IF AttemptsSince(k, l) = {}
                THEN cmModeToTheme[l] = None
                ELSE LET i == CHOOSE i \in AttemptsSince(k, l) :
                                  \A j \in AttemptsSince(k, l) : i <= j
                     IN /\ ~NothingChanged(activations[i].languageBoundTheme,
                                           activations[i].themeName)
                        /\ activations[i].state = "resolved" => activations[i].value

\* ---------------------------------------------------------------------
\* activateLanguage with a grammar that fails to compile (Highlighter.ts)
\* ---------------------------------------------------------------------

\* the scopes the grammar registered for a scope includes: the grammar of S1
\* depends on S2
Includes == [s \in ScopeNames |-> IF s = "S1" THEN {"S2"} ELSE {}]

\* getGrammarDefinition finds a grammar for the scope and for every scope the
\* engine asks for while it compiles the grammar
Compiles(scopeName) ==
    \A s \in {scopeName} \cup Includes[scopeName] : s \in DOMAIN scopeNameToRawGrammars

\* `await Highlighter.loadLanguage(languageId)` returns: the grammar compiled
ActivateCompiled(languageId) ==
    /\ languageId \in DOMAIN activated
    /\ Compiles(languageIdToScopeName[languageId])
    /\ ActivateLoaded(languageId)

\* `await Highlighter.loadLanguage(languageId)` throws what
\* getGrammarDefinition threw: activateLanguage is rejected, and nothing
\* catches the error to undo lines 96 and 97
ActivateRejected(languageId) ==
    /\ languageId \in DOMAIN activated
    /\ activated[languageId].stage = "loading"
    /\ ~Compiles(languageIdToScopeName[languageId])
    /\ activated' = [activated EXCEPT ![languageId].stage = "done",
                                      ![languageId].result = "rejected"]
    /\ UNCHANGED <<languageIdToScopeName, scopeNameToInjections,
                   scopeNameToRawGrammars, scopeNameToLanguageId, registry, engines>>
    /\ UNCHANGED coordVars
    /\ UNCHANGED otherVars

ActivationNext ==
    \/ \E s \in ScopeNames : AddGrammar(s)
    \/ \E s \in ScopeNames, l \in LanguageIds, p \in Loads : ActivateLanguage(s, l, p)
    \/ \E l \in LanguageIds : ActivateIdle(l)
    \/ \E l \in LanguageIds : ActivateCompiled(l)
    \/ \E l \in LanguageIds : ActivateRejected(l)

ActivationSpec == RegInit /\ [][ActivationNext]_vars

\* C33: an activateLanguage call rejected by a compilation failure leaves
\* both binding maps as they were before the call, when the language id was
\* not bound (the call passed line 92): the language id is in neither map
\* afterwards, and once every grammar the compilation needs is registered,
\* the same call passes both opening checks again.
C33_RejectedActivationLeavesNoBinding ==
    \A l \in DOMAIN activated :
        activated[l].result = "rejected" =>
            /\ l \notin DOMAIN languageIdToScopeName
            /\ \A s \in DOMAIN scopeNameToLanguageId : scopeNameToLanguageId[s] # l
            /\ \A s \in ScopeNames :
                  Compiles(s) => ActivateOutcome(s, l) = "bound"

====
